---- MODULE Spec2Model ----
(***************************************************************************)
(* Verification model of the address-parser service:                       *)
(*   - the batch job registry of AddressService (ProcessBatchJob,          *)
(*     GetJobStatus, GetJobResults, GetJobResultsStream) and its HTTP      *)
(*     handlers (AddressController);                                       *)
(*   - the request cache (MongoCacheService with its in-process LRU,       *)
(*     RedisCacheService, HybridCacheService) as used by                   *)
(*     AddressController.ParseAddress and AdminController.                 *)
(* Confidence values are percentages (1.0 = 100).                          *)
(***************************************************************************)
EXTENDS Integers, Sequences, FiniteSets, TLC

(***************************************************************************)
(* Bounds of the model.                                                    *)
(***************************************************************************)
\* the job ids utils.GenerateUUID hands out, in the order it hands them out
GeneratedUUIDs == <<"job-1", "job-2">>
\* per-job address cap; the source uses 20000 (address_controller.go:99),
\* scaled down so that the cap and the first rejected size are both explored
MaxBatchAddresses == 2
\* capacity of the NDJSON result channel; the source uses 100
\* (address_service.go:343), scaled down so that the producer can block
ResultChanCap == 1

(***************************************************************************)
(* Inputs.                                                                 *)
(***************************************************************************)
\* raw addresses: the empty string and two well-formed addresses
EmptyAddress == ""
Addresses == {"a1", "a2"}
BatchAddresses == {EmptyAddress, "a1"}

\* requests.ParseOptions: only UseCache and MinConfidence influence behaviour
MinConfidences == {0, 50}
ParseOptions == [use_cache : BOOLEAN, min_confidence : MinConfidences]
BatchOptions == [use_cache : {FALSE}, min_confidence : MinConfidences]

\* what the gazetteer index holds for an address: the deepest level at which
\* SearchByLevel returns candidates
MatchLevels == {"ward", "district", "none"}
\* how many of the three search levels (province, district, ward) the
\* searcher answers before it becomes unreachable
SearchReach == 0..3

\* the gazetteer index the service starts with
InitIndex == [a \in Addresses |-> IF a = "a1" THEN "ward" ELSE "none"]

(***************************************************************************)
(* models.AddressResult and the status constants.                          *)
(***************************************************************************)
StatusMatched == "matched"
StatusAmbiguous == "ambiguous"
StatusNeedsReview == "needs_review"
StatusUnmatched == "unmatched"

\* confidence thresholds (percent): thresholdHigh and thresholdMedium of
\* NewAddressMatcher, thresholdHigh and thresholdReviewLow of
\* statusFromConfidence
ThresholdHigh == 90
ThresholdReviewLow == 60

AddressResult(raw, confidence, status) ==
    [raw |-> raw, confidence |-> confidence, status |-> status,
     raw_fingerprint |-> ""]

NoResult == [raw |-> "", confidence |-> 0, status |-> "", raw_fingerprint |-> ""]

ParseError == [err |-> TRUE, result |-> NoResult]
ParseOk(r) == [err |-> FALSE, result |-> r]

VARIABLES
    \* ---- gazetteer ----
    index,            \* address -> deepest level the index finds for it
    \* ---- batch job registry (AddressService) ----
    jobs,             \* as.jobs: job id -> *JobStatus
    jobResults,       \* as.jobResults: job id -> results slice
    worker,           \* the ProcessBatchJob goroutine of each job
    nextJob,          \* job ids handed out so far (utils.GenerateUUID)
    handler,          \* an HTTP handler reading job status or results
    batchResp,        \* last response of POST /v1/addresses/jobs
    \* ---- request cache ----
    gazetteerVersion, \* gazetteer_version of the last live seed
    cacheImpl,        \* the ICacheService the controllers were built with
    redis,            \* Redis keyspace of RedisCacheService
    l1Cache,          \* mcs.l1Cache: the in-process LRU, most recent first
    collection,       \* the address_cache collection (documents)
    now,              \* time.Now()
    task,             \* HTTP requests / service calls in flight
    populate,         \* goroutines of HybridCacheService.Get syncing Redis
    statUpdates,      \* goroutines running updateAccessStats (by _id)
    \* ---- address matcher (AddressMatcher.MatchAddress) ----
    normalized,       \* NormalizedNoDiacritics of the address being matched
    matchResult,      \* the MatchResult of each execution on that address
    \* ---- candidate builder (GazetteerSearcher.FindCandidates) ----
    hits,             \* the units of the index that match the query text
    finder,           \* the FindCandidates call in progress
    heap,             \* the loop variables that escaped through a pointer
    \* ---- gazetteer seed (AdminService.SeedGazetteer) ----
    adminUnits,       \* the admin_units collection
    documents,        \* the documents of the search index
    seeder,           \* the SeedGazetteer call in progress
    seen,             \* what the last reader of either store observed
    \* ---- text normalizer (TextNormalizerV2.NormalizeAddress) ----
    rawInput,       \* the raw address handed to the normalizer
    normalization,    \* the NormalizationResult, and the matcher's fingerprint
    \* ---- in-memory TTL cache (CacheService) ----
    memCache,         \* cs.cache and cs.timestamps
    memNow,           \* time.Now() of the process holding the cache
    memExpirers,      \* deleteExpired goroutines started and not yet run
    memGot,           \* what the last Get returned
    \* ---- history, for stating properties ----
    pair,             \* the last parse answered with no other request around
    invalidated       \* versions invalidated while they were not current

batchVars == <<jobs, jobResults, worker, nextJob, handler, batchResp>>
storeVars == <<redis, l1Cache, collection>>
bgVars == <<populate, statUpdates>>
histVars == <<pair, invalidated>>
matcherVars == <<normalized, matchResult>>
finderVars == <<hits, finder, heap>>
seedVars == <<adminUnits, documents, seeder, seen>>
normalizerVars == <<rawInput, normalization>>
memVars == <<memCache, memNow, memExpirers, memGot>>
toolVars == <<normalizerVars, memVars>>
engineVars == <<matcherVars, finderVars, seedVars, toolVars>>
cacheVars == <<gazetteerVersion, cacheImpl, storeVars, now, task, bgVars>>
vars == <<index, batchVars, cacheVars, histVars, engineVars>>

(***************************************************************************)
(* AddressService.ParseSingle / ParseAddress  (address_service.go)         *)
(***************************************************************************)
\* ParseSingle: province search error aborts; district and ward search
\* errors are skipped ("continue"), leaving fewer candidates.
ParseSingle(rawAddress, idx, reach) ==
    IF reach = 0
    THEN ParseError
    ELSE IF idx[rawAddress] = "ward" /\ reach = 3
    THEN ParseOk(AddressResult(rawAddress, 100, StatusMatched))
    ELSE IF idx[rawAddress] \in {"ward", "district"} /\ reach >= 2
    THEN ParseOk(AddressResult(rawAddress, 80, StatusAmbiguous))
    ELSE ParseOk(AddressResult(rawAddress, 0, StatusNeedsReview))

ParseAddress(rawAddress, options, idx, reach) ==
    IF rawAddress = EmptyAddress
    THEN ParseError
    ELSE LET r == ParseSingle(rawAddress, idx, reach) IN
         IF r.err
         THEN r
         ELSE IF r.result.confidence < options.min_confidence
         THEN ParseOk([r.result EXCEPT !.confidence = options.min_confidence,
                                       !.status = StatusNeedsReview])
         ELSE r

(***************************************************************************)
(* Request cache: data.                                                    *)
(***************************************************************************)
\* capacity of the in-process LRU; cmd/api/main.go builds it with 1000,
\* scaled down so that eviction happens
L1Size == 1
\* how far time.Now() advances
MaxClock == 1
\* cap on the access_count of a cache document ($inc is unbounded)
MaxAccessCount == 2

\* gazetteer versions an operator may seed or invalidate
Versions == {"1.0.0", "2.0.0"}
\* the version every parse result is stamped with (TODO in the source)
DefaultGazetteerVersion == "1.0.0"
\* MongoCacheService.extractGazetteerVersion: ignores the result
extractGazetteerVersion(result) == DefaultGazetteerVersion

\* request slots; two requests can be in flight together
Tasks == {"t1", "t2"}
\* ObjectIDs the database assigns to inserted documents
ObjectIDSeq == <<"oid-1", "oid-2", "oid-3">>
ObjectIDs == {ObjectIDSeq[i] : i \in 1..Len(ObjectIDSeq)}
NoObjectID == "oid-none"

\* MongoCacheService.generateFingerprint: "sha256:" + hex(sha256(key));
\* distinct keys give distinct fingerprints
generateFingerprint(key) == <<"sha256", key>>

\* RedisCacheService: cacheKey := rcs.prefix + key
RedisKey(key) == <<"addr_parser:", key>>
RedisKeys == {RedisKey(a) : a \in Addresses}
RedisNil == [nil |-> TRUE, data |-> <<>>]

\* json.Marshal / json.Unmarshal of models.AddressResult
JsonMarshal(r) == <<"json", r.raw, r.confidence, r.status, r.raw_fingerprint>>
JsonUnmarshal(b) ==
    [raw |-> b[2], confidence |-> b[3], status |-> b[4], raw_fingerprint |-> b[5]]

\* ---- hashicorp LRU as used by MongoCacheService -------------------------
LruHas(c, k) == \E i \in 1..Len(c) : c[i].key = k
LruValue(c, k) == c[CHOOSE i \in 1..Len(c) : c[i].key = k].value
LruRemove(c, k) == SelectSeq(c, LAMBDA e : e.key # k)
\* Add: insert or overwrite at the front, evict the oldest beyond capacity
LruAdd(c, k, v) ==
    LET s == <<[key |-> k, value |-> v]>> \o LruRemove(c, k)
    IN SubSeq(s, 1, IF Len(s) < L1Size THEN Len(s) ELSE L1Size)
\* Get on a hit: the entry becomes the most recent one
LruTouch(c, k) == <<[key |-> k, value |-> LruValue(c, k)]>> \o LruRemove(c, k)

\* ---- the address_cache collection ---------------------------------------
\* the models.AddressCache document MongoCacheService.Set builds
SetEntry(key, result, time) ==
    [_id |-> NoObjectID,
     raw_fingerprint |-> generateFingerprint(key),
     raw_address |-> result.raw,
     parsed_result |-> result,
     gazetteer_version |-> extractGazetteerVersion(result),
     manually_verified |-> FALSE,
     created_at |-> time,
     last_accessed |-> time,
     access_count |-> 1]

DocsWith(coll, fp) == {d \in coll : d.raw_fingerprint = fp}

\* ObjectIDs neither held by a document nor by a pending stat update, and
\* the one the next insert gets
FreeObjectIDs(coll, pending) == ObjectIDs \ ({d._id : d \in coll} \cup pending)
NextObjectID(coll, pending) ==
    ObjectIDSeq[CHOOSE i \in 1..Len(ObjectIDSeq) :
                   /\ ObjectIDSeq[i] \in FreeObjectIDs(coll, pending)
                   /\ \A j \in 1..(i - 1) : ObjectIDSeq[j] \notin FreeObjectIDs(coll, pending)]

\* ReplaceOne(filter raw_fingerprint, entry, upsert): the matched document
\* is replaced and keeps its _id; with no match the entry is inserted
ReplaceOneUpsert(coll, entry, freshId) ==
    LET matched == DocsWith(coll, entry.raw_fingerprint) IN
    IF matched # {}
    THEN LET d == CHOOSE x \in matched : TRUE
         IN (coll \ {d}) \cup {[entry EXCEPT !._id = d._id]}
    ELSE coll \cup {[entry EXCEPT !._id = freshId]}

\* DeleteOne(filter raw_fingerprint)
DeleteOne(coll, fp) ==
    IF DocsWith(coll, fp) = {}
    THEN coll
    ELSE coll \ {CHOOSE x \in DocsWith(coll, fp) : TRUE}

\* DeleteMany(gazetteer_version $ne version)
DeleteManyNotVersion(coll, version) ==
    {d \in coll : d.gazetteer_version = version}

\* UpdateOne(_id, $set last_accessed, $inc access_count)
UpdateStats(coll, id, time) ==
    {IF d._id = id
     THEN [d EXCEPT !.last_accessed = time, !.access_count = @ + 1]
     ELSE d : d \in coll}

\* Find sorted by access_count descending, limited: every order the sort
\* may produce
RECURSIVE SortedByAccess(_)
SortedByAccess(coll) ==
    IF coll = {}
    THEN {<<>>}
    ELSE LET top == {d \in coll : \A e \in coll : e.access_count <= d.access_count}
         IN UNION {{<<d>> \o rest : rest \in SortedByAccess(coll \ {d})} : d \in top}

Limit(s, n) == SubSeq(s, 1, IF Len(s) < n THEN Len(s) ELSE n)

\* WarmUp's cursor loop: l1Cache.Add(entry.RawAddress, &entry.ParsedResult)
RECURSIVE LoadAll(_, _)
LoadAll(c, docs) ==
    IF docs = <<>>
    THEN c
    ELSE LoadAll(LruAdd(c, Head(docs).raw_address, Head(docs).parsed_result),
                 Tail(docs))

(***************************************************************************)
(* Request cache: requests in flight.                                      *)
(* A request is at pc "cache" while a call into the ICacheService is       *)
(* running. The call runs in two lanes: rpc is the position of the Redis   *)
(* side (HybridCacheService only), mpc the position inside                 *)
(* MongoCacheService. HybridCacheService.Set/Delete/Clear/Invalidate start *)
(* both lanes as goroutines and wait for both; its Get runs the Redis      *)
(* lane first and the Mongo lane only after a Redis miss or error.         *)
(* At pc "respond" the response has been written (c.JSON).                 *)
(***************************************************************************)
NoOptions == [use_cache |-> FALSE, min_confidence |-> 0]
NoPair == [valid |-> FALSE, key |-> "", confidence |-> 0, raw_fingerprint |-> ""]

IdleTask ==
    [op |-> "idle", pc |-> "idle", key |-> "", options |-> NoOptions,
     version |-> "", call |-> "none",
     rpc |-> "idle", mpc |-> "idle", rerr |-> FALSE, merr |-> FALSE,
     found |-> FALSE, result |-> NoResult, source |-> "none",
     entry_version |-> "", installed |-> NoResult, keys |-> {},
     l1_written |-> FALSE, l2_write |-> "none",
     code |-> 0, cache_hit |-> FALSE, current |-> "", fault |-> FALSE,
     quiet |-> FALSE, repeat |-> FALSE, first |-> NoPair, since |-> {},
     index_down |-> FALSE]

AllIdle == \A u \in Tasks : task[u].op = "idle"

\* request `rec` starts in slot t. A request is quiet while it is the only
\* one in flight and no cached key has expired since it started.
Start(t, rec) ==
    [u \in Tasks |->
        IF u = t
        THEN [rec EXCEPT !.quiet = AllIdle, !.since = invalidated]
        ELSE [task[u] EXCEPT !.quiet = FALSE]]

\* the first lane positions of a call into the cache service
FirstRedisStep(call) ==
    CASE call = "get" -> "get"
      [] call = "set" -> "set"
      [] call = "del" -> "del"
      [] OTHER -> "clr_keys"

FirstMongoStep(call) ==
    CASE call = "get" -> "get_l1"
      [] call = "set" -> "set_l1"
      [] call = "del" -> "del_l1"
      [] call = "clr" -> "clr_purge"
      [] OTHER -> "inv_purge"

BeginCall(tk, call) ==
    [tk EXCEPT !.pc = "cache", !.call = call,
               !.rpc = IF cacheImpl = "hybrid" THEN FirstRedisStep(call) ELSE "idle",
               !.mpc = IF cacheImpl = "hybrid" /\ call = "get"
                       THEN "idle" ELSE FirstMongoStep(call),
               !.rerr = FALSE, !.merr = FALSE, !.found = FALSE]

\* the call has returned to its caller
LanesDone(tk) ==
    /\ tk.pc = "cache"
    /\ tk.rpc \in {"idle", "done"}
    /\ tk.mpc \in {"idle", "done"}
    /\ tk.rpc = "done" \/ tk.mpc = "done"

\* the error the call returns: HybridCacheService.Get swallows a Redis
\* error, every other call reports an error of either side
CallError(tk) == tk.merr \/ (tk.call # "get" /\ tk.rerr)

\* how far the MongoDB write of a Set has come
L2Write(tk) ==
    IF tk.call # "set" THEN "none"
    ELSE IF tk.mpc # "done" THEN "pending"
    ELSE IF tk.merr THEN "err" ELSE "ok"

\* the request answers: c.JSON(code, ...)
Answer(tk, code, cache_hit, result) ==
    [tk EXCEPT !.pc = "respond", !.code = code, !.cache_hit = cache_hit,
               !.result = result, !.current = gazetteerVersion,
               !.l2_write = L2Write(tk),
               !.fault = tk.fault \/ tk.merr \/ tk.rerr,
               !.first = IF tk.repeat /\ tk.quiet THEN pair ELSE NoPair,
               !.call = "none", !.rpc = "idle", !.mpc = "idle"]

\* options of the single-address requests of the cache specifications
CacheOptions == [use_cache : BOOLEAN, min_confidence : {0}]

\* how the searcher behaves during a single parse: down, or fully up
ParseReach == {0, 3}

(***************************************************************************)
(* AddressController.ParseAddress  (address_controller.go:37-85)           *)
(***************************************************************************)
\* variant: the address is bound without "required"
BindingOptional(address) == TRUE

\* ParseAddressRequest.Address is bound with binding:"required": the empty
\* string (the zero value) fails ShouldBindJSON
BindingRequired(address) == address # EmptyAddress

\* lines 38-45: a request that fails to bind is answered 400
ParseAddressRejected(t) ==
    /\ task[t].op = "idle"
    /\ ~BindingRequired(EmptyAddress)
    /\ task' = Start(t, Answer([IdleTask EXCEPT !.op = "parse", !.key = EmptyAddress],
                               400, FALSE, NoResult))
    /\ UNCHANGED <<index, batchVars, gazetteerVersion, cacheImpl, storeVars,
                   now, bgVars>>

\* lines 38-51: bind the request; with use_cache call cacheService.Get
ParseAddressStart(t, address, options) ==
    /\ task[t].op = "idle"
    /\ BindingRequired(address)
    /\ LET repeat == AllIdle /\ pair.valid /\ pair.key = address /\ options.use_cache
           rec == [IdleTask EXCEPT !.op = "parse", !.pc = "parse",
                                   !.key = address, !.options = options,
                                   !.repeat = repeat]
       IN task' = Start(t, IF options.use_cache THEN BeginCall(rec, "get") ELSE rec)
    /\ UNCHANGED <<index, batchVars, gazetteerVersion, cacheImpl, storeVars,
                   now, bgVars>>

\* HybridCacheService.Get lines 49-60: a hit of the MongoDB service starts
\* a goroutine that copies the result to Redis
PopulateAfterGet(tk) ==
    IF cacheImpl = "hybrid" /\ tk.found /\ ~tk.merr /\ tk.source \in {"l1", "l2"}
    THEN populate \cup {[key |-> tk.key, result |-> tk.result]}
    ELSE populate

\* lines 51-60: a hit (err == nil && found) is answered from the cache,
\* anything else falls through to the parser
ParseAfterGet(t) ==
    /\ task[t].op = "parse"
    /\ task[t].call = "get"
    /\ LanesDone(task[t])
    /\ populate' = PopulateAfterGet(task[t])
    /\ IF ~CallError(task[t]) /\ task[t].found
       THEN task' = [task EXCEPT ![t] = Answer(task[t], 200, TRUE, task[t].result)]
       ELSE task' = [task EXCEPT ![t].pc = "parse", ![t].call = "none",
                                 ![t].rpc = "idle", ![t].mpc = "idle",
                                 ![t].fault = task[t].merr \/ task[t].rerr,
                                 ![t].merr = FALSE, ![t].rerr = FALSE,
                                 ![t].found = FALSE, ![t].source = "none",
                                 ![t].entry_version = "",
                                 ![t].result = NoResult]
    /\ UNCHANGED <<index, batchVars, gazetteerVersion, cacheImpl, storeVars,
                   now, statUpdates>>

\* line 75: the error cacheService.Set returns is discarded
SetResponseCode(setErr) == 200

\* lines 64-84: parse; an error answers 500; with use_cache the result is
\* handed to cacheService.Set before the response is written
ParseWith(t, reach) ==
    /\ task[t].op = "parse"
    /\ task[t].pc = "parse"
    /\ LET tk == [task[t] EXCEPT !.index_down = (reach < 3)]
           outcome == ParseAddress(tk.key, tk.options, index, reach)
       IN task' = [task EXCEPT ![t] =
              IF outcome.err
              THEN Answer(tk, 500, FALSE, NoResult)
              ELSE IF tk.options.use_cache
              THEN BeginCall([tk EXCEPT !.result = outcome.result], "set")
              ELSE Answer(tk, 200, FALSE, outcome.result)]
    /\ UNCHANGED <<index, batchVars, gazetteerVersion, cacheImpl, storeVars,
                   now, bgVars>>

\* the same step with the searcher either down or fully up
ParseAddressStep(t) == \E reach \in ParseReach : ParseWith(t, reach)

\* lines 75-84: Set has returned; the response is written
ParseAfterSet(t) ==
    /\ task[t].op = "parse"
    /\ task[t].call = "set"
    /\ LanesDone(task[t])
    /\ task' = [task EXCEPT ![t] =
                  Answer(task[t], SetResponseCode(CallError(task[t])), FALSE,
                         task[t].result)]
    /\ UNCHANGED <<index, batchVars, gazetteerVersion, cacheImpl, storeVars,
                   now, bgVars>>

(***************************************************************************)
(* AdminController  (admin_controller.go)                                  *)
(***************************************************************************)
\* SeedGazetteer, lines 33-86, live run: AdminService.SeedGazetteer stores
\* the units under the requested version and, with rebuild_indexes, feeds
\* them to the search index (a failure there is only logged); the cache is
\* invalidated only when rebuild_indexes is set. A failing seed answers 500.
SeedGazetteer(t, version, data, rebuild) ==
    /\ task[t].op = "idle"
    /\ LET rec == [IdleTask EXCEPT !.op = "seed", !.version = version] IN
       \/ /\ task' = Start(t, Answer(rec, 500, FALSE, NoResult))
          /\ UNCHANGED <<index, gazetteerVersion>>
       \/ /\ gazetteerVersion' = version
          /\ IF rebuild
             THEN /\ index' \in {data, index}
                  /\ task' = Start(t, BeginCall(rec, "inv"))
             ELSE /\ task' = Start(t, [Answer(rec, 200, FALSE, NoResult)
                                          EXCEPT !.current = version])
                  /\ UNCHANGED index
    /\ UNCHANGED <<batchVars, cacheImpl, storeVars, now, bgVars>>

\* SeedGazetteer, lines 82-101: an invalidation error is only logged
SeedAfterInvalidate(t) ==
    /\ task[t].op = "seed"
    /\ LanesDone(task[t])
    /\ task' = [task EXCEPT ![t] = Answer(task[t], 200, FALSE, NoResult)]
    /\ UNCHANGED <<index, batchVars, gazetteerVersion, cacheImpl, storeVars,
                   now, bgVars>>

\* InvalidateCache, lines 131-143
InvalidateCache(t, version) ==
    /\ task[t].op = "idle"
    /\ task' = Start(t, BeginCall([IdleTask EXCEPT !.op = "invalidate",
                                                   !.version = version], "inv"))
    /\ UNCHANGED <<index, batchVars, gazetteerVersion, cacheImpl, storeVars,
                   now, bgVars>>

\* InvalidateCache, lines 144-165: 500 on error, 200 otherwise
InvalidateCacheReturn(t) ==
    /\ task[t].op = "invalidate"
    /\ LanesDone(task[t])
    /\ task' = [task EXCEPT ![t] =
                  Answer(task[t], IF CallError(task[t]) THEN 500 ELSE 200,
                         FALSE, NoResult)]
    /\ UNCHANGED <<index, batchVars, gazetteerVersion, cacheImpl, storeVars,
                   now, bgVars>>

(***************************************************************************)
(* Direct callers of ICacheService.Delete and ICacheService.Clear          *)
(***************************************************************************)
CacheDelete(t, key) ==
    /\ task[t].op = "idle"
    /\ task' = Start(t, BeginCall([IdleTask EXCEPT !.op = "delete", !.key = key],
                                  "del"))
    /\ UNCHANGED <<index, batchVars, gazetteerVersion, cacheImpl, storeVars,
                   now, bgVars>>

CacheClear(t) ==
    /\ task[t].op = "idle"
    /\ task' = Start(t, BeginCall([IdleTask EXCEPT !.op = "clear"], "clr"))
    /\ UNCHANGED <<index, batchVars, gazetteerVersion, cacheImpl, storeVars,
                   now, bgVars>>

CacheCallReturn(t) ==
    /\ task[t].op \in {"delete", "clear"}
    /\ LanesDone(task[t])
    /\ task' = [task EXCEPT ![t] =
                  Answer(task[t], IF CallError(task[t]) THEN 500 ELSE 200,
                         FALSE, NoResult)]
    /\ UNCHANGED <<index, batchVars, gazetteerVersion, cacheImpl, storeVars,
                   now, bgVars>>

\* the response has left; the slot is free again
Done(t) ==
    /\ task[t].pc = "respond"
    /\ task' = [task EXCEPT ![t] = IdleTask]
    /\ UNCHANGED <<index, batchVars, gazetteerVersion, cacheImpl, storeVars,
                   now, bgVars>>

(***************************************************************************)
(* History: observers of the steps above.                                  *)
(***************************************************************************)
Starting(t) == task[t].op = "idle" /\ task'[t].op # "idle"
Answering(t) == task[t].pc # "respond" /\ task'[t].pc = "respond"

\* `pair` remembers the last parse that used the cache and was answered 200
\* with no other request in flight and no error from a cache backend, until
\* the next request starts or a Redis key expires (time has passed); a parse
\* of the same address starting then is its immediate repetition
TrackPair ==
    pair' =
      IF \E t \in Tasks : Answering(t)
      THEN LET t == CHOOSE u \in Tasks : Answering(u)
               tk == task'[t]
           IN IF tk.op = "parse" /\ tk.code = 200 /\ tk.options.use_cache
                 /\ tk.quiet /\ ~tk.fault
              THEN [valid |-> TRUE, key |-> tk.key,
                    confidence |-> tk.result.confidence,
                    raw_fingerprint |-> tk.result.raw_fingerprint]
              ELSE NoPair
      ELSE IF \E t \in Tasks : Starting(t)
      THEN LET t == CHOOSE u \in Tasks : Starting(u)
           IN IF task'[t].repeat THEN pair ELSE NoPair
      ELSE IF \E k \in RedisKeys : ~redis[k].nil /\ redis'[k].nil
      THEN NoPair
      ELSE pair

\* `invalidated` collects the versions whose invalidation was answered 200
\* while another version was the current one
TrackInvalidated ==
    invalidated' =
      IF \E t \in Tasks : Answering(t) /\ task'[t].op = "invalidate"
                            /\ task'[t].code = 200
                            /\ task'[t].version # gazetteerVersion
      THEN invalidated \cup
             {task'[t].version : t \in {u \in Tasks : Answering(u)
                                           /\ task'[u].op = "invalidate"}}
      ELSE invalidated

(***************************************************************************)
(* MongoCacheService  (unnamed/part_005)                                   *)
(***************************************************************************)
\* Get, lines 129-135: l1Cache.Get
MongoGetL1(t) ==
    /\ task[t].mpc = "get_l1"
    /\ LET k == task[t].key IN
       IF LruHas(l1Cache, k)
       THEN /\ l1Cache' = LruTouch(l1Cache, k)
            /\ task' = [task EXCEPT
                  ![t].mpc = "done", ![t].found = TRUE,
                  ![t].result = LruValue(l1Cache, k),
                  ![t].source = "l1",
                  ![t].entry_version = extractGazetteerVersion(LruValue(l1Cache, k))]
       ELSE /\ task' = [task EXCEPT ![t].mpc = "get_find"]
            /\ UNCHANGED l1Cache
    /\ UNCHANGED <<index, batchVars, gazetteerVersion, cacheImpl, redis,
                   collection, now, bgVars>>

\* Get, lines 138-157: FindOne by fingerprint; ErrNoDocuments is a miss, any
\* other error is returned; on a hit the stat update goroutine is started
MongoGetFind(t) ==
    /\ task[t].mpc = "get_find"
    /\ \/ /\ task' = [task EXCEPT ![t].mpc = "done", ![t].merr = TRUE]
          /\ UNCHANGED statUpdates
       \/ /\ DocsWith(collection, generateFingerprint(task[t].key)) = {}
          /\ task' = [task EXCEPT ![t].mpc = "done"]
          /\ UNCHANGED statUpdates
       \/ \E d \in DocsWith(collection, generateFingerprint(task[t].key)) :
             /\ task' = [task EXCEPT
                   ![t].mpc = "get_add",
                   ![t].result = d.parsed_result,
                   ![t].entry_version = d.gazetteer_version]
             /\ statUpdates' = statUpdates \cup {d._id}
    /\ UNCHANGED <<index, batchVars, gazetteerVersion, cacheImpl, storeVars,
                   now, populate>>

\* variant: the LRU is filled from a second look at the collection
InstalledOnL2HitReread(entry, key, coll) ==
    IF DocsWith(coll, generateFingerprint(key)) = {}
    THEN NoResult
    ELSE (CHOOSE d \in DocsWith(coll, generateFingerprint(key)) : TRUE).parsed_result

\* line 160: the value put into the LRU is &cacheEntry.ParsedResult, the
\* pointer that is also returned
InstalledOnL2Hit(entry, key, coll) == entry

\* Get, lines 160-166: l1Cache.Add and return
MongoGetAdd(t) ==
    /\ task[t].mpc = "get_add"
    /\ LET v == InstalledOnL2Hit(task[t].result, task[t].key, collection) IN
       /\ l1Cache' = LruAdd(l1Cache, task[t].key, v)
       /\ task' = [task EXCEPT ![t].mpc = "done", ![t].found = TRUE,
                               ![t].source = "l2", ![t].installed = v]
    /\ UNCHANGED <<index, batchVars, gazetteerVersion, cacheImpl, redis,
                   collection, now, bgVars>>

\* Set, line 172: l1Cache.Add
MongoSetL1(t) ==
    /\ task[t].mpc = "set_l1"
    /\ l1Cache' = LruAdd(l1Cache, task[t].key, task[t].result)
    /\ task' = [task EXCEPT ![t].mpc = "set_replace", ![t].l1_written = TRUE]
    /\ UNCHANGED <<index, batchVars, gazetteerVersion, cacheImpl, redis,
                   collection, now, bgVars>>

\* Set, lines 175-209: ReplaceOne with upsert; an error is returned
MongoSetReplace(t) ==
    /\ task[t].mpc = "set_replace"
    /\ \/ /\ task' = [task EXCEPT ![t].mpc = "done", ![t].merr = TRUE]
          /\ UNCHANGED collection
       \/ /\ \/ DocsWith(collection, generateFingerprint(task[t].key)) # {}
             \/ FreeObjectIDs(collection, statUpdates) # {}
          /\ collection' = ReplaceOneUpsert(collection,
                               SetEntry(task[t].key, task[t].result, now),
                               NextObjectID(collection, statUpdates))
          /\ task' = [task EXCEPT ![t].mpc = "done"]
    /\ UNCHANGED <<index, batchVars, gazetteerVersion, cacheImpl, redis,
                   l1Cache, now, bgVars>>

\* Delete, line 215: l1Cache.Remove
MongoDeleteL1(t) ==
    /\ task[t].mpc = "del_l1"
    /\ l1Cache' = LruRemove(l1Cache, task[t].key)
    /\ task' = [task EXCEPT ![t].mpc = "del_one"]
    /\ UNCHANGED <<index, batchVars, gazetteerVersion, cacheImpl, redis,
                   collection, now, bgVars>>

\* Delete, lines 218-226: DeleteOne by fingerprint
MongoDeleteOne(t) ==
    /\ task[t].mpc = "del_one"
    /\ \/ /\ task' = [task EXCEPT ![t].mpc = "done", ![t].merr = TRUE]
          /\ UNCHANGED collection
       \/ /\ collection' = DeleteOne(collection, generateFingerprint(task[t].key))
          /\ task' = [task EXCEPT ![t].mpc = "done"]
    /\ UNCHANGED <<index, batchVars, gazetteerVersion, cacheImpl, redis,
                   l1Cache, now, bgVars>>

\* Clear, line 232: l1Cache.Purge
MongoClearPurge(t) ==
    /\ task[t].mpc = "clr_purge"
    /\ l1Cache' = <<>>
    /\ task' = [task EXCEPT ![t].mpc = "clr_many"]
    /\ UNCHANGED <<index, batchVars, gazetteerVersion, cacheImpl, redis,
                   collection, now, bgVars>>

\* Clear, lines 235-248: DeleteMany of everything
MongoClearMany(t) ==
    /\ task[t].mpc = "clr_many"
    /\ \/ /\ task' = [task EXCEPT ![t].mpc = "done", ![t].merr = TRUE]
          /\ UNCHANGED collection
       \/ /\ collection' = {}
          /\ task' = [task EXCEPT ![t].mpc = "done"]
    /\ UNCHANGED <<index, batchVars, gazetteerVersion, cacheImpl, redis,
                   l1Cache, now, bgVars>>

\* InvalidateByGazetteerVersion, line 254: l1Cache.Purge
MongoInvalidatePurge(t) ==
    /\ task[t].mpc = "inv_purge"
    /\ l1Cache' = <<>>
    /\ task' = [task EXCEPT ![t].mpc = "inv_delete"]
    /\ UNCHANGED <<index, batchVars, gazetteerVersion, cacheImpl, redis,
                   collection, now, bgVars>>

\* InvalidateByGazetteerVersion, lines 257-268: DeleteMany of the documents
\* whose gazetteer_version differs from the argument
MongoInvalidateDelete(t) ==
    /\ task[t].mpc = "inv_delete"
    /\ \/ /\ task' = [task EXCEPT ![t].mpc = "done", ![t].merr = TRUE]
          /\ UNCHANGED collection
       \/ /\ collection' = DeleteManyNotVersion(collection, task[t].version)
          /\ task' = [task EXCEPT ![t].mpc = "done"]
    /\ UNCHANGED <<index, batchVars, gazetteerVersion, cacheImpl, redis,
                   l1Cache, now, bgVars>>

\* updateAccessStats, lines 352-363: UpdateOne by _id; an error (the
\* request context is gone, the database is away) is only logged
UpdateAccessStats(id) ==
    /\ id \in statUpdates
    /\ statUpdates' = statUpdates \ {id}
    /\ \/ UNCHANGED collection
       \/ /\ \A d \in collection : d._id = id => d.access_count < MaxAccessCount
          /\ collection' = UpdateStats(collection, id, now)
    /\ UNCHANGED <<index, batchVars, gazetteerVersion, cacheImpl, redis,
                   l1Cache, now, task, populate>>

\* WarmUp, lines 379-409: load the `limit` most accessed documents into the
\* LRU; a failing Find changes nothing
WarmUp(limit) ==
    /\ \E docs \in SortedByAccess(collection) :
          l1Cache' = LoadAll(l1Cache, Limit(docs, limit))
    /\ UNCHANGED <<index, batchVars, gazetteerVersion, cacheImpl, redis,
                   collection, now, task, bgVars>>

(***************************************************************************)
(* RedisCacheService  (unnamed/part_007), reached through                  *)
(* HybridCacheService  (hybrid_cache_service.go)                           *)
(***************************************************************************)
\* HybridCacheService.Get lines 31-40 with RedisCacheService.Get: a hit is
\* returned; a miss or an error (only logged) goes on to the MongoDB service
RedisGet(t) ==
    /\ task[t].rpc = "get"
    /\ LET v == redis[RedisKey(task[t].key)] IN
       \/ /\ ~v.nil
          /\ task' = [task EXCEPT
                ![t].rpc = "done", ![t].found = TRUE,
                ![t].result = JsonUnmarshal(v.data),
                ![t].source = "redis",
                ![t].entry_version = extractGazetteerVersion(JsonUnmarshal(v.data))]
       \/ /\ v.nil
          /\ task' = [task EXCEPT ![t].rpc = "done", ![t].mpc = "get_l1"]
       \/ task' = [task EXCEPT ![t].rpc = "done", ![t].rerr = TRUE,
                               ![t].mpc = "get_l1"]
    /\ UNCHANGED <<index, batchVars, gazetteerVersion, cacheImpl, storeVars,
                   now, bgVars>>

\* the keyspace after SET cacheKey data (ttl 24h)
RedisPut(r, key, result) ==
    [r EXCEPT ![RedisKey(key)] = [nil |-> FALSE, data |-> JsonMarshal(result)]]

\* RedisCacheService.Set, lines 80-96
RedisSet(t) ==
    /\ task[t].rpc = "set"
    /\ \/ /\ redis' = RedisPut(redis, task[t].key, task[t].result)
          /\ task' = [task EXCEPT ![t].rpc = "done"]
       \/ /\ task' = [task EXCEPT ![t].rpc = "done", ![t].rerr = TRUE]
          /\ UNCHANGED redis
    /\ UNCHANGED <<index, batchVars, gazetteerVersion, cacheImpl, l1Cache,
                   collection, now, bgVars>>

\* RedisCacheService.Delete, lines 99-110
RedisDelete(t) ==
    /\ task[t].rpc = "del"
    /\ \/ /\ redis' = [redis EXCEPT ![RedisKey(task[t].key)] = RedisNil]
          /\ task' = [task EXCEPT ![t].rpc = "done"]
       \/ /\ task' = [task EXCEPT ![t].rpc = "done", ![t].rerr = TRUE]
          /\ UNCHANGED redis
    /\ UNCHANGED <<index, batchVars, gazetteerVersion, cacheImpl, l1Cache,
                   collection, now, bgVars>>

\* RedisCacheService.Clear, lines 114-118 (also InvalidateByGazetteerVersion,
\* line 135): KEYS prefix*
RedisClearKeys(t) ==
    /\ task[t].rpc = "clr_keys"
    /\ \/ LET keys == {k \in RedisKeys : ~redis[k].nil} IN
          task' = [task EXCEPT ![t].keys = keys,
                               ![t].rpc = IF keys = {} THEN "done" ELSE "clr_del"]
       \/ task' = [task EXCEPT ![t].rpc = "done", ![t].rerr = TRUE]
    /\ UNCHANGED <<index, batchVars, gazetteerVersion, cacheImpl, storeVars,
                   now, bgVars>>

\* RedisCacheService.Clear, lines 120-128: DEL of the keys listed before
RedisClearDel(t) ==
    /\ task[t].rpc = "clr_del"
    /\ \/ /\ redis' = [k \in RedisKeys |->
                          IF k \in task[t].keys THEN RedisNil ELSE redis[k]]
          /\ task' = [task EXCEPT ![t].rpc = "done", ![t].keys = {}]
       \/ /\ task' = [task EXCEPT ![t].rpc = "done", ![t].rerr = TRUE,
                                  ![t].keys = {}]
          /\ UNCHANGED redis
    /\ UNCHANGED <<index, batchVars, gazetteerVersion, cacheImpl, l1Cache,
                   collection, now, bgVars>>

\* HybridCacheService.Get, lines 52-58: the goroutine started on a hit of
\* the MongoDB service writes the result to Redis; an error is only logged
SyncToRedis(p) ==
    /\ p \in populate
    /\ populate' = populate \ {p}
    /\ \/ redis' = RedisPut(redis, p.key, p.result)
       \/ UNCHANGED redis
    /\ UNCHANGED <<index, batchVars, gazetteerVersion, cacheImpl, l1Cache,
                   collection, now, task, statUpdates>>

\* a key set with the 24h TTL (part_007:48,88) expires; a request in
\* flight is no longer quiet: time has passed
RedisExpire(k) ==
    /\ ~redis[k].nil
    /\ redis' = [redis EXCEPT ![k] = RedisNil]
    /\ task' = [u \in Tasks |-> [task[u] EXCEPT !.quiet = FALSE]]
    /\ UNCHANGED <<index, batchVars, gazetteerVersion, cacheImpl, l1Cache,
                   collection, now, bgVars>>

(***************************************************************************)
(* Environment.                                                            *)
(***************************************************************************)
\* time passes
Tick ==
    /\ now < MaxClock
    /\ now' = now + 1
    /\ UNCHANGED <<index, batchVars, gazetteerVersion, cacheImpl, storeVars,
                   task, bgVars>>

\* the editorial review marks a cached entry as manually verified
\* (models.AddressCache.ManuallyVerified); the review handlers themselves
\* are outside the modelled sources
MarkManuallyVerified(fp) ==
    /\ \E d \in DocsWith(collection, fp) :
          /\ ~d.manually_verified
          /\ collection' = (collection \ {d}) \cup {[d EXCEPT !.manually_verified = TRUE]}
    /\ UNCHANGED <<index, batchVars, gazetteerVersion, cacheImpl, redis,
                   l1Cache, now, task, bgVars>>

(***************************************************************************)
(* Wiring and specifications of the cache.                                 *)
(***************************************************************************)
\* a second gazetteer an operator may seed
AltIndex == [a \in Addresses |-> IF a = "a1" THEN "none" ELSE "ward"]
SeedIndexes == {InitIndex, AltIndex}

InitCache(impl) ==
    /\ gazetteerVersion = DefaultGazetteerVersion
    /\ cacheImpl = impl
    /\ redis = [k \in RedisKeys |-> RedisNil]
    /\ l1Cache = <<>>
    /\ collection = {}
    /\ now = 0
    /\ task = [t \in Tasks |-> IdleTask]
    /\ populate = {}
    /\ statUpdates = {}
    /\ pair = NoPair
    /\ invalidated = {}

(***************************************************************************)
(* AddressMatcher.MatchAddress on a normalized address: the pattern        *)
(* extractor (PatternExtractor.ExtractPatterns), the components and the    *)
(* residual computed from its result.  Strings are sequences of            *)
(* characters; a normalized address is a sequence of words, joined by      *)
(* single spaces (step 9 of TextNormalizerV2.NormalizeAddress).            *)
(***************************************************************************)
Digits == {"0", "1", "2", "3", "4", "5", "6", "7", "8", "9"}
Space == " "

\* words of the normalized addresses explored; none of them is rewritten by
\* the nine normalization steps, none holds a digit and none begins with "so"
WordHem == <<"h", "e", "m">>
WordAn == <<"a", "n">>
WordLo == <<"l", "o">>
WordLan == <<"l", "a", "n">>
WordPhan == <<"p", "h", "a", "n">>
MatchWords == {WordHem, WordAn, WordLo, WordLan, WordPhan}
\* longest normalized address explored, in words
MaxTextWords == 4
MatchInputs == UNION {[1..n -> MatchWords] : n \in 1..MaxTextWords}

\* strings.Join(words, " ")
RECURSIVE Join(_)
Join(words) ==
    IF Len(words) = 0 THEN <<>>
    ELSE IF Len(words) = 1 THEN Head(words)
    ELSE Head(words) \o <<Space>> \o Join(Tail(words))

\* strings.Fields(s)
RECURSIVE Fields(_, _)
Fields(s, word) ==
    IF Len(s) = 0 THEN (IF Len(word) = 0 THEN <<>> ELSE <<word>>)
    ELSE IF Head(s) = Space
         THEN (IF Len(word) = 0 THEN <<>> ELSE <<word>>) \o Fields(Tail(s), <<>>)
         ELSE Fields(Tail(s), Append(word, Head(s)))

\* strings.ReplaceAll(s, old, new) for a non-empty old
RECURSIVE ReplaceAll(_, _, _)
ReplaceAll(s, old, new) ==
    IF Len(s) < Len(old) THEN s
    ELSE IF SubSeq(s, 1, Len(old)) = old
         THEN new \o ReplaceAll(SubSeq(s, Len(old) + 1, Len(s)), old, new)
         ELSE <<Head(s)>> \o ReplaceAll(Tail(s), old, new)

\* the capture classes of the patterns: [0-9]+ and [a-z0-9]+
ClassMatches(class, w) ==
    /\ Len(w) > 0
    /\ class = "digits" => \A i \in 1..Len(w) : w[i] \in Digits

\* One alternative of a pattern, \b(?:kw)\s*(class)\b: the keyword, the class
\* of the capture, whether white space is required between the two
\* (ALLEY_NAME) or forbidden (the "nv" form of HOUSE_NO), whether the
\* capture runs over the following words too (ALLEY_NAME), and whether
\* the capture group encloses the keyword (HOUSE_NO).
Alt(kw, class) ==
    [kw |-> kw, class |-> class, sep |-> "opt", many |-> FALSE, whole |-> FALSE]

highPriorityPatterns ==
    [APARTMENT |-> <<Alt(<<"c", "h">>, "digits"),
                     Alt(<<"c", "a", "n", "h", "o">>, "digits")>>,
     FLOOR |-> <<Alt(<<"t", "a", "n", "g">>, "digits"),
                 Alt(<<"l", "a", "u">>, "digits")>>,
     OFFICE |-> <<Alt(<<"v", "h">>, "digits"),
                  Alt(<<"v", "a", "n", "p", "h", "o", "n", "g">>, "digits")>>,
     BLOCK_TOWER |-> <<Alt(<<"b", "l", "o", "c", "k">>, "alnum"),
                       Alt(<<"t", "o", "a">>, "alnum")>>,
     UNIT |-> <<Alt(<<"u", "n", "i", "t">>, "alnum"),
                Alt(<<"a", "p", "t">>, "alnum"),
                Alt(<<"r", "o", "o", "m">>, "alnum"),
                Alt(<<"p">>, "alnum")>>]

AlleyName(kw) ==
    [kw |-> kw, class |-> "alnum", sep |-> "req", many |-> TRUE, whole |-> FALSE]
HouseNo(kw, class, sep) ==
    [kw |-> kw, class |-> class, sep |-> sep, many |-> FALSE, whole |-> TRUE]

normalPriorityPatterns ==
    [HOUSE_NO |-> <<HouseNo(<<>>, "digits", "none"),
                    HouseNo(<<"n", "v">>, "digits", "none"),
                    HouseNo(<<"l", "o">>, "alnum", "opt"),
                    HouseNo(<<"c", "h">>, "digits", "opt")>>,
     ROAD_CODE |-> <<Alt(<<"q", "l">>, "digits"), Alt(<<"d", "t">>, "digits"),
                     Alt(<<"t", "l">>, "digits"), Alt(<<"h", "l">>, "digits"),
                     Alt(<<"d", "h">>, "digits")>>,
     ALLEY |-> <<Alt(WordHem, "digits"), Alt(<<"n", "g", "o">>, "digits"),
                 Alt(<<"n", "g", "a", "c", "h">>, "digits"),
                 Alt(<<"k", "i", "e", "t">>, "digits")>>,
     ALLEY_NAME |-> <<AlleyName(WordHem), AlleyName(<<"n", "g", "o">>),
                      AlleyName(<<"n", "g", "a", "c", "h">>),
                      AlleyName(<<"k", "i", "e", "t">>)>>,
     Q_NUM |-> <<Alt(<<"q">>, "digits"), Alt(<<"q", "u", "a", "n">>, "digits")>>,
     P_NUM |-> <<Alt(<<"p">>, "digits"),
                 Alt(<<"p", "h", "u", "o", "n", "g">>, "digits")>>,
     KP_NUM |-> <<Alt(<<"k", "p">>, "digits"),
                  Alt(<<"k", "h", "u", "p", "h", "o">>, "digits")>>,
     TO_NUM |-> <<Alt(<<"t", "o">>, "digits")>>,
     AP_NUM |-> <<Alt(<<"a", "p">>, "digits")>>,
     THON_NUM |-> <<Alt(<<"t", "h", "o", "n">>, "digits")>>,
     XOM_NUM |-> <<Alt(<<"x", "o", "m">>, "digits")>>]

NoMatch == [len |-> 0, value |-> <<>>]

\* the match of one alternative that begins with word i, if there is one:
\* the keyword is the whole word and the capture is the next word (or, for
\* ALLEY_NAME, every word that follows), or the capture is the rest of the
\* word; len is the number of words matched
AltMatchAt(words, alt, i) ==
    LET w == words[i]
        k == Len(alt.kw)
        last == IF alt.many THEN Len(words) ELSE i + 1
        rest == SubSeq(w, k + 1, Len(w))
    IN  IF /\ w = alt.kw
           /\ alt.sep # "none"
           /\ i < Len(words)
           /\ ClassMatches(alt.class, words[i + 1])
        THEN [len |-> last - i + 1,
              value |-> IF alt.whole THEN Join(SubSeq(words, i, last))
                        ELSE Join(SubSeq(words, i + 1, last))]
        ELSE IF /\ alt.sep # "req"
                /\ Len(w) > k
                /\ SubSeq(w, 1, k) = alt.kw
                /\ ClassMatches(alt.class, rest)
        THEN [len |-> 1, value |-> IF alt.whole THEN w ELSE rest]
        ELSE NoMatch

\* the alternatives of a regular expression are tried in order
RECURSIVE MatchAt(_, _, _)
MatchAt(words, alts, i) ==
    IF Len(alts) = 0 THEN NoMatch
    ELSE LET m == AltMatchAt(words, Head(alts), i)
         IN  IF m.len > 0 THEN m ELSE MatchAt(words, Tail(alts), i)

\* PatternExtractor.findMatches: the leftmost, non-overlapping matches of one
\* pattern, as PatternResults (Type, Value, Tokens; no caller reads Position
\* or Confidence)
RECURSIVE findMatches(_, _, _, _)
findMatches(words, alts, patternType, i) ==
    IF i > Len(words) THEN <<>>
    ELSE LET m == MatchAt(words, alts, i)
         IN  IF m.len = 0 THEN findMatches(words, alts, patternType, i + 1)
             ELSE <<[Type |-> patternType,
                     Value |-> m.value,
                     Tokens |-> SubSeq(words, i, i + m.len - 1)]>>
                  \o findMatches(words, alts, patternType, i + m.len)

\* the orders in which a range statement may visit the keys of a map
RangeOrders(keys) ==
    {order \in [1..Cardinality(keys) -> keys] :
        \A i, j \in 1..Cardinality(keys) : order[i] = order[j] => i = j}

\* the keys of a pattern map whose pattern matches somewhere in the text
Matching(words, patterns) ==
    {name \in DOMAIN patterns : findMatches(words, patterns[name], name, 1) # <<>>}

\* one loop of ExtractPatterns: the matches of each pattern, appended in the
\* order the range statement visits them
RECURSIVE RangePatterns(_, _, _)
RangePatterns(words, patterns, order) ==
    IF Len(order) = 0 THEN <<>>
    ELSE findMatches(words, patterns[Head(order)], Head(order), 1)
         \o RangePatterns(words, patterns, Tail(order))

\* PatternExtractor.ExtractPatterns: the high priority map, then the normal
\* priority map.  A pattern without a match appends nothing, so the visiting
\* orders are drawn over the patterns that match.
ExtractPatterns(words, highOrder, normalOrder) ==
    RangePatterns(words, highPriorityPatterns, highOrder)
    \o RangePatterns(words, normalPriorityPatterns, normalOrder)

\* the values of one pattern type, in the order of the extracted patterns
RECURSIVE ValuesOf(_, _)
ValuesOf(patterns, patternType) ==
    IF Len(patterns) = 0 THEN <<>>
    ELSE (IF Head(patterns).Type = patternType
          THEN <<Head(patterns).Value>> ELSE <<>>)
         \o ValuesOf(Tail(patterns), patternType)

\* the last value of a pattern type, <<>> if there is none
LastValue(patterns, patternType) ==
    LET values == ValuesOf(patterns, patternType)
    IN  IF Len(values) = 0 THEN <<>> ELSE values[Len(values)]

\* AddressMatcher.extractComponents (RoadCode is built from digits only)
extractComponents(patterns) ==
    [Number |-> LastValue(patterns, "HOUSE_NO"),
     Unit |-> LastValue(patterns, "APARTMENT"),
     Floor |-> LastValue(patterns, "FLOOR"),
     AlleyNumber |-> LastValue(patterns, "ALLEY"),
     AlleyName |-> LastValue(patterns, "ALLEY_NAME")]

\* the inner loop of calculateResidual: each token of a pattern is blanked
RECURSIVE RemoveTokens(_, _)
RemoveTokens(residual, tokens) ==
    IF Len(tokens) = 0 THEN residual
    ELSE RemoveTokens(ReplaceAll(residual, Head(tokens), <<Space>>), Tail(tokens))

RECURSIVE RemovePatterns(_, _)
RemovePatterns(residual, patterns) ==
    IF Len(patterns) = 0 THEN residual
    ELSE RemovePatterns(RemoveTokens(residual, Head(patterns).Tokens),
                        Tail(patterns))

\* AddressMatcher.calculateResidual: the tokens of the patterns are blanked
\* in the order of the patterns, white space is collapsed and trimmed
calculateResidual(text, patterns) ==
    Join(Fields(RemovePatterns(text, patterns), <<>>))

\* AddressMatcher.generateFingerprint: a digest of the normalized text and
\* the gazetteer version
MatcherFingerprint(text) == <<"sha256", text, DefaultGazetteerVersion>>

NoMatchResult == [done |-> FALSE]

\* the fields of MatchResult that follow from the normalized text
MatchResultOf(words, patterns) ==
    [done |-> TRUE,
     NormalizedNoDiacritics |-> Join(words),
     RawFingerprint |-> MatcherFingerprint(Join(words)),
     Components |-> extractComponents(patterns),
     Residual |-> calculateResidual(Join(words), patterns)]

Executions == 1..2

MatcherIdle ==
    /\ normalized = <<>>
    /\ matchResult = [e \in Executions |-> NoMatchResult]

\* AddressMatcher.MatchAddress, execution e on the same address
MatchAddress(e) ==
    /\ ~matchResult[e].done
    /\ \A d \in Executions : d < e => matchResult[d].done
    /\ \E highOrder \in RangeOrders(Matching(normalized, highPriorityPatterns)),
          normalOrder \in RangeOrders(Matching(normalized, normalPriorityPatterns)) :
          matchResult' = [matchResult EXCEPT ![e] =
              MatchResultOf(normalized,
                            ExtractPatterns(normalized, highOrder, normalOrder))]
    /\ UNCHANGED <<index, batchVars, cacheVars, histVars, toolVars, normalized, finderVars,
                   seedVars>>

(***************************************************************************)
(* GazetteerSearcher.FindCandidates: three levels of index searches and    *)
(* the assembly of ward > district > province paths.                       *)
(***************************************************************************)
\* the administrative units of the index: the units of
\* TestGazetteerSearcher_MockData and a sibling district with its ward
IndexUnits ==
    <<[admin_id |-> "79", parent_id |-> "84", level |-> 2],
      [admin_id |-> "769", parent_id |-> "79", level |-> 3],
      [admin_id |-> "770", parent_id |-> "79", level |-> 3],
      [admin_id |-> "26734", parent_id |-> "769", level |-> 4],
      [admin_id |-> "27001", parent_id |-> "770", level |-> 4]>>
UnitIds == {IndexUnits[i].admin_id : i \in 1..Len(IndexUnits)}
NoParent == ""

\* searchIndex: the hits of the query text that pass the level and parent_id
\* filters, as AdminCandidates in the order of the index
RECURSIVE searchIndex(_, _, _, _)
searchIndex(units, matching, level, parent) ==
    IF Len(units) = 0 THEN <<>>
    ELSE LET u == Head(units)
         IN  (IF /\ u.admin_id \in matching
                 /\ u.level = level
                 /\ (parent = NoParent \/ u.parent_id = parent)
              THEN <<[ID |-> u.admin_id, ParentID |-> u.parent_id,
                      Level |-> u.level]>>
              ELSE <<>>)
             \o searchIndex(Tail(units), matching, level, parent)

\* the loops over provinces and districts: one search per parent, skipped
\* when the search fails
RECURSIVE searchChildren(_, _, _, _)
searchChildren(parents, matching, level, failing) ==
    IF Len(parents) = 0 THEN <<>>
    ELSE (IF Head(parents).ID \in failing THEN <<>>
          ELSE searchIndex(IndexUnits, matching, level, Head(parents).ID))
         \o searchChildren(Tail(parents), matching, level, failing)

\* the first candidate with the given ID, as the inner loops find it
FirstWithID(candidates, id) ==
    LET at == {i \in 1..Len(candidates) : candidates[i].ID = id}
    IN  IF at = {} THEN <<>>
        ELSE <<candidates[CHOOSE i \in at : \A j \in at : i <= j]>>

\* The variable that &ward points to in iteration k of the ward loop.  The
\* images are built with golang:1.21, where a range loop has one variable
\* for all its iterations.
WardCell(k) == 1

IdleFinder ==
    [pc |-> "idle", provinces |-> <<>>, districts |-> <<>>, wards |-> <<>>,
     k |-> 0, pathMap |-> {}, paths |-> <<>>, Paths |-> <<>>]

FinderIdle ==
    /\ hits = {}
    /\ finder = IdleFinder
    /\ heap = <<>>

\* step 1: the province search
FindProvinces ==
    /\ finder.pc = "idle"
    /\ finder' = [finder EXCEPT !.pc = "districts",
                     !.provinces = searchIndex(IndexUnits, hits, 2, NoParent)]
    /\ UNCHANGED <<index, batchVars, cacheVars, histVars, toolVars, matcherVars, hits, heap,
                   seedVars>>

\* step 1 when the province search fails: the error is returned
FindProvincesFailed ==
    /\ finder.pc = "idle"
    /\ finder' = [finder EXCEPT !.pc = "failed"]
    /\ UNCHANGED <<index, batchVars, cacheVars, histVars, toolVars, matcherVars, hits, heap,
                   seedVars>>

\* step 2: the districts of each province found
FindDistricts ==
    /\ finder.pc = "districts"
    /\ \E failing \in SUBSET {finder.provinces[i].ID : i \in 1..Len(finder.provinces)} :
          finder' = [finder EXCEPT !.pc = "wards",
                        !.districts = searchChildren(finder.provinces, hits, 3, failing)]
    /\ UNCHANGED <<index, batchVars, cacheVars, histVars, toolVars, matcherVars, hits, heap,
                   seedVars>>

\* step 3: the wards of each district found
FindWards ==
    /\ finder.pc = "wards"
    /\ \E failing \in SUBSET {finder.districts[i].ID : i \in 1..Len(finder.districts)} :
          finder' = [finder EXCEPT !.pc = "paths", !.k = 1,
                        !.wards = searchChildren(finder.districts, hits, 4, failing)]
    /\ UNCHANGED <<index, batchVars, cacheVars, histVars, toolVars, matcherVars, hits, heap,
                   seedVars>>

\* step 4, one iteration of the ward loop: the ward is assigned to the loop
\* variable, its district and the district's province are looked up among
\* the candidates, and the path keeps the address of the loop variable and
\* the addresses of the copies of the district and the province
BuildPath ==
    /\ finder.pc = "paths"
    /\ finder.k <= Len(finder.wards)
    /\ LET ward == finder.wards[finder.k]
           cell == WardCell(finder.k)
           parentDistrict == FirstWithID(finder.districts, ward.ParentID)
           parentProvince ==
               IF parentDistrict = <<>> THEN <<>>
               ELSE FirstWithID(finder.provinces, parentDistrict[1].ParentID)
           pathKey ==
               IF parentProvince = <<>> THEN <<>>
               ELSE <<ward.ID, parentDistrict[1].ID, parentProvince[1].ID>>
       IN  /\ heap' = [c \in DOMAIN heap \cup {cell} |->
                          IF c = cell THEN ward ELSE heap[c]]
           /\ IF parentDistrict = <<>> \/ parentProvince = <<>>
                 \/ pathKey \in finder.pathMap
              THEN finder' = [finder EXCEPT !.k = @ + 1]
              ELSE finder' = [finder EXCEPT !.k = @ + 1,
                                 !.pathMap = @ \cup {pathKey},
                                 !.paths = Append(@, [Ward |-> cell,
                                                      District |-> parentDistrict[1],
                                                      Province |-> parentProvince[1]])]
    /\ UNCHANGED <<index, batchVars, cacheVars, histVars, toolVars, matcherVars, hits,
                   seedVars>>

\* the result as its reader sees it: Ward is read through its pointer
ReturnPaths ==
    /\ finder.pc = "paths"
    /\ finder.k > Len(finder.wards)
    /\ finder' = [finder EXCEPT !.pc = "done",
                     !.Paths = [i \in 1..Len(finder.paths) |->
                                   [Ward |-> heap[finder.paths[i].Ward],
                                    District |-> finder.paths[i].District,
                                    Province |-> finder.paths[i].Province]]]
    /\ UNCHANGED <<index, batchVars, cacheVars, histVars, toolVars, matcherVars, hits, heap,
                   seedVars>>

(***************************************************************************)
(* AdminService.SeedGazetteer step by step: the admin_units collection,    *)
(* the documents of the search index, and the readers of both.             *)
(***************************************************************************)
\* most units in one seed request
MaxSeedUnits == 2
\* documents per AddDocuments call; the source uses 1000
\* (gazetteer_searcher.go:445), scaled down so that a seed takes two calls
SeedBatchSize == 1

\* the data of a seed request, as the admin ids of its units
SeedDatas == UNION {[1..n -> UnitIds] : n \in 0..MaxSeedUnits}

\* ValidateGazetteerData: some units, no admin id twice
ValidationPassed(data) ==
    /\ Len(data) > 0
    /\ \A i, j \in 1..Len(data) : data[i] = data[j] => i = j

\* A stored unit: its admin id, the version it was stored under and the seed
\* that wrote it (0 is the load the service starts with), standing for the
\* unit's content.
Unit(id, version, seed) ==
    [admin_id |-> id, gazetteer_version |-> version, seed |-> seed]

\* the unit set loaded before the seed
PreviousUnits == {Unit(id, DefaultGazetteerVersion, 0) : id \in {"79", "769"}}

IdleSeeder ==
    [pc |-> "idle", version |-> "", data |-> <<>>, rebuild |-> FALSE, i |-> 0]
NothingSeen == [source |-> "none", units |-> {}]

SeederIdle ==
    /\ adminUnits = PreviousUnits
    /\ documents = PreviousUnits
    /\ seeder = IdleSeeder
    /\ seen = NothingSeen

\* collection.DeleteMany(ctx, {gazetteer_version: version})
DeleteMany(units, version) == {u \in units : u.gazetteer_version # version}

\* index.AddDocuments(batch, "id"): documents are replaced by primary key
AddDocuments(docs, batch, version) ==
    {d \in docs : \A k \in 1..Len(batch) : d.admin_id # batch[k]}
        \cup {Unit(batch[k], version, 1) : k \in 1..Len(batch)}

\* what a store holds once a seed has gone through
AfterSeed(units, data, version) ==
    DeleteMany(units, version) \cup {Unit(data[k], version, 1) : k \in 1..Len(data)}
AfterIndexing(docs, data, version) == AddDocuments(docs, data, version)

\* SeedGazetteer, lines 127-134: the data does not pass validation
SeedRejected(version, data, rebuild) ==
    /\ seeder.pc = "idle"
    /\ ~ValidationPassed(data)
    /\ seeder' = [IdleSeeder EXCEPT !.pc = "failed", !.version = version,
                                    !.data = data, !.rebuild = rebuild]
    /\ UNCHANGED <<index, batchVars, cacheVars, histVars, toolVars, matcherVars,
                   finderVars, adminUnits, documents, seen>>

\* SeedGazetteer, lines 127-134: the data passes validation
SeedValidated(version, data, rebuild) ==
    /\ seeder.pc = "idle"
    /\ ValidationPassed(data)
    /\ seeder' = [IdleSeeder EXCEPT !.pc = "delete", !.version = version,
                                    !.data = data, !.rebuild = rebuild]
    /\ UNCHANGED <<index, batchVars, cacheVars, histVars, toolVars, matcherVars,
                   finderVars, adminUnits, documents, seen>>

\* SeedGazetteer, lines 139-144: the units of the seeded version are deleted
DeleteOldUnits ==
    /\ seeder.pc = "delete"
    /\ adminUnits' = DeleteMany(adminUnits, seeder.version)
    /\ seeder' = [seeder EXCEPT !.pc = "insert", !.i = 1]
    /\ UNCHANGED <<index, batchVars, cacheVars, histVars, toolVars, matcherVars,
                   finderVars, documents, seen>>

\* SeedGazetteer, lines 142-144: DeleteMany fails and the seed returns
DeleteFailed ==
    /\ seeder.pc = "delete"
    /\ seeder' = [seeder EXCEPT !.pc = "failed"]
    /\ UNCHANGED <<index, batchVars, cacheVars, histVars, toolVars, matcherVars,
                   finderVars, adminUnits, documents, seen>>

\* SeedGazetteer, line 159: InsertMany writes the documents one after the
\* other, outside any transaction
InsertUnit ==
    /\ seeder.pc = "insert"
    /\ seeder.i <= Len(seeder.data)
    /\ adminUnits' = adminUnits \cup {Unit(seeder.data[seeder.i], seeder.version, 1)}
    /\ seeder' = [seeder EXCEPT !.i = @ + 1]
    /\ UNCHANGED <<index, batchVars, cacheVars, histVars, toolVars, matcherVars,
                   finderVars, documents, seen>>

\* SeedGazetteer, lines 160-162: InsertMany fails midway and the seed returns
InsertFailed ==
    /\ seeder.pc = "insert"
    /\ seeder.i <= Len(seeder.data)
    /\ seeder' = [seeder EXCEPT !.pc = "failed"]
    /\ UNCHANGED <<index, batchVars, cacheVars, histVars, toolVars, matcherVars,
                   finderVars, adminUnits, documents, seen>>

\* SeedGazetteer, lines 164-167: InsertMany is through
InsertDone ==
    /\ seeder.pc = "insert"
    /\ seeder.i > Len(seeder.data)
    /\ seeder' = [seeder EXCEPT !.pc = IF seeder.rebuild THEN "index" ELSE "done",
                                !.i = 1]
    /\ UNCHANGED <<index, batchVars, cacheVars, histVars, toolVars, matcherVars,
                   finderVars, adminUnits, documents, seen>>

\* GazetteerSearcher.SeedData, lines 443-460: one batch is added to the index
\* (its task is taken as processed when AddDocuments returns)
SeedBatch ==
    /\ seeder.pc = "index"
    /\ seeder.i <= Len(seeder.data)
    /\ LET end == IF seeder.i + SeedBatchSize - 1 > Len(seeder.data)
                  THEN Len(seeder.data) ELSE seeder.i + SeedBatchSize - 1
       IN  /\ documents' = AddDocuments(documents,
                                        SubSeq(seeder.data, seeder.i, end),
                                        seeder.version)
           /\ seeder' = [seeder EXCEPT !.i = end + 1]
    /\ UNCHANGED <<index, batchVars, cacheVars, histVars, toolVars, matcherVars,
                   finderVars, adminUnits, seen>>

\* SeedData, lines 453-455, and SeedGazetteer, lines 178-180: a batch fails,
\* which is logged; the seed still succeeds
SeedBatchFailed ==
    /\ seeder.pc = "index"
    /\ seeder.i <= Len(seeder.data)
    /\ seeder' = [seeder EXCEPT !.pc = "done"]
    /\ UNCHANGED <<index, batchVars, cacheVars, histVars, toolVars, matcherVars,
                   finderVars, adminUnits, documents, seen>>

\* SeedData, line 463: all batches are added
SeedDataDone ==
    /\ seeder.pc = "index"
    /\ seeder.i > Len(seeder.data)
    /\ seeder' = [seeder EXCEPT !.pc = "done"]
    /\ UNCHANGED <<index, batchVars, cacheVars, histVars, toolVars, matcherVars,
                   finderVars, adminUnits, documents, seen>>

\* AdminService.ExportData("admin_units"): a reader of the collection
ExportData ==
    /\ seen' = [source |-> "admin_units", units |-> adminUnits]
    /\ UNCHANGED <<index, batchVars, cacheVars, histVars, toolVars, matcherVars,
                   finderVars, adminUnits, documents, seeder>>

\* GazetteerSearcher.searchIndex: a search reads the documents of the index
SearchDocuments ==
    /\ seen' = [source |-> "index", units |-> documents]
    /\ UNCHANGED <<index, batchVars, cacheVars, histVars, toolVars, matcherVars,
                   finderVars, adminUnits, documents, seeder>>

(***************************************************************************)
(* Text normalizer: TextNormalizerV2.NormalizeAddress, character by        *)
(* character, over an alphabet of two letters, a digit, the space and a    *)
(* punctuation mark.  The steps whose patterns and dictionaries have no    *)
(* key over that alphabet (2, 4, 5, 7, 8) leave such texts as they are.    *)
(***************************************************************************)
\* longest raw address explored, in characters
MaxInputLen == 3
InputLetters == {"a", "q"}
InputDigits == {"5"}
Comma == ","
InputChars == InputLetters \cup InputDigits \cup {Space, Comma}
RawAddresses == UNION {[1..n -> InputChars] : n \in 0..MaxInputLen}

\* unicode.IsLetter(r) || unicode.IsDigit(r) for some rune of the input
HasLetterOrDigit(s) ==
    \E i \in 1..Len(s) : s[i] \in InputLetters \cup InputDigits

\* strings.TrimSpace(s)
RECURSIVE TrimSpace(_)
TrimSpace(s) ==
    IF Len(s) = 0 THEN s
    ELSE IF Head(s) = Space THEN TrimSpace(Tail(s))
    ELSE IF s[Len(s)] = Space THEN TrimSpace(SubSeq(s, 1, Len(s) - 1))
    ELSE s

\* punctuationPattern.ReplaceAllString(working, " "): a run of punctuation
\* becomes one space
RECURSIVE ReplacePunctuation(_)
ReplacePunctuation(s) ==
    IF Len(s) = 0 THEN s
    ELSE IF Head(s) = Comma
         THEN IF Len(s) > 1 /\ s[2] = Comma
              THEN ReplacePunctuation(Tail(s))
              ELSE <<Space>> \o ReplacePunctuation(Tail(s))
         ELSE <<Head(s)>> \o ReplacePunctuation(Tail(s))

\* regexp [^a-z0-9\s] replaced by " " (the fallback of step 1)
KeepAlnumSpace(s) ==
    [i \in 1..Len(s) |-> IF s[i] = Comma THEN Space ELSE s[i]]

\* \s+ replaced by " ", then strings.TrimSpace
CollapseSpaces(s) == Join(Fields(s, <<>>))

DebugEmpty == <<"d", "e", "b", "u", "g", "_", "e", "m", "p", "t", "y", "_">>

\* step1NoiseRemovalAndDualNormalization: the normalized text it returns
step1NoiseRemovalAndDualNormalization(input) ==
    IF TrimSpace(input) = <<>> THEN <<>>
    ELSE LET text == CollapseSpaces(ReplacePunctuation(TrimSpace(input)))
             fallback == CollapseSpaces(KeepAlnumSpace(input))
         IN IF text # <<>> THEN text
            ELSE IF fallback # <<>> THEN fallback
            ELSE DebugEmpty \o input

\* adminLevelMap, the one key over the alphabet: "q" -> "quan"
adminLevelMap(word) ==
    IF word = <<"q">> THEN <<"q", "u", "a", "n">> ELSE word

\* step3SmartAbbreviationExpansion (isAdminLevelContext is always true)
step3SmartAbbreviationExpansion(input) ==
    LET words == Fields(input, <<>>)
    IN Join([i \in 1..Len(words) |-> adminLevelMap(words[i])])

AllDigits(w) == Len(w) > 0 /\ \A i \in 1..Len(w) : w[i] \in Digits

SoNha == <<"s", "o", "_", "n", "h", "a", "_">>
Quan == <<"q", "u", "a", "n", "_">>

\* normalPriorityPatterns on one word: HOUSE_NO ^(?:SO\s*)?([0-9]+...)$ and
\* Q_NUM ^(?:Q|QUAN)\s*([0-9]+)$; no word matches both
PatternWord(word) ==
    IF AllDigits(word) THEN SoNha \o word
    ELSE IF Head(word) = "q" /\ AllDigits(Tail(word)) THEN Quan \o Tail(word)
    ELSE word

\* step6AdvancedPatternRecognition: the text it returns
step6AdvancedPatternRecognition(input) ==
    LET words == Fields(input, <<>>)
    IN Join([i \in 1..Len(words) |-> PatternWord(words[i])])

HasPrefix(w, prefix) ==
    Len(w) >= Len(prefix) /\ SubSeq(w, 1, Len(prefix)) = prefix

\* step 9 keeps a tagged word, or an untagged one of two bytes or more
KeptWord(word) ==
    \/ HasPrefix(word, SoNha)
    \/ HasPrefix(word, Quan)
    \/ Len(word) >= 2

\* step9QualityTaggingAndResidualTracking: the final text
step9QualityTaggingAndResidualTracking(input) ==
    Join(SelectSeq(Fields(input, <<>>), KeptWord))

\* step 9: the words moved to ComponentTags.Residual
ResidualWords(input) ==
    SelectSeq(Fields(input, <<>>), LAMBDA w : ~KeptWord(w))

FingerprintPrefix == <<"s", "h", "a", "2", "5", "6", ":">>
UnitSeparator == "\\x1F"
VersionChars == <<"1", ".", "0", ".", "0">>

\* TextNormalizerV2.generateFingerprint(normalized, "1.0.0")
NormalizerFingerprint(text) ==
    FingerprintPrefix \o text \o <<UnitSeparator>> \o VersionChars

\* the two hexadecimal digits fmt's %x writes for one byte
HexOfByte(c) ==
    CASE c = UnitSeparator -> <<"1", "f">>
      [] c = Space -> <<"2", "0">>
      [] c = Comma -> <<"2", "c">>
      [] c = "." -> <<"2", "e">>
      [] c = "0" -> <<"3", "0">>
      [] c = "1" -> <<"3", "1">>
      [] c = "5" -> <<"3", "5">>
      [] c = "_" -> <<"5", "f">>
      [] c = "a" -> <<"6", "1">>
      [] c = "b" -> <<"6", "2">>
      [] c = "d" -> <<"6", "4">>
      [] c = "e" -> <<"6", "5">>
      [] c = "g" -> <<"6", "7">>
      [] c = "h" -> <<"6", "8">>
      [] c = "m" -> <<"6", "d">>
      [] c = "n" -> <<"6", "e">>
      [] c = "o" -> <<"6", "f">>
      [] c = "p" -> <<"7", "0">>
      [] c = "q" -> <<"7", "1">>
      [] c = "s" -> <<"7", "3">>
      [] c = "t" -> <<"7", "4">>
      [] c = "u" -> <<"7", "5">>
      [] c = "y" -> <<"7", "9">>

\* fmt.Sprintf("%x", s)
RECURSIVE SprintfHex(_)
SprintfHex(s) ==
    IF Len(s) = 0 THEN <<>> ELSE HexOfByte(Head(s)) \o SprintfHex(Tail(s))

\* AddressMatcher.generateFingerprint(normalized, gazetteerVersion)
HexFingerprint(text) ==
    FingerprintPrefix \o SprintfHex(text \o <<UnitSeparator>> \o VersionChars)

NotNormalized == [done |-> FALSE]

\* TextNormalizerV2.NormalizeAddress, and the fingerprint MatchAddress
\* computes from its NormalizedNoDiacritics
NormalizationOf(input) ==
    LET step1 == step1NoiseRemovalAndDualNormalization(input)
        step3 == step3SmartAbbreviationExpansion(step1)
        step6 == step6AdvancedPatternRecognition(step3)
        final == step9QualityTaggingAndResidualTracking(step6)
    IN [done |-> TRUE,
        NormalizedNoDiacritics |-> final,
        Residual |-> ResidualWords(step6),
        Fingerprint |-> NormalizerFingerprint(final),
        RawFingerprint |-> HexFingerprint(final)]

NormalizerIdle ==
    /\ rawInput = <<>>
    /\ normalization = NotNormalized

(***************************************************************************)
(* In-memory TTL cache: CacheService.  Every method holds cs.mu for its    *)
(* whole body, so each is one step; the goroutine Get starts for an        *)
(* expired key runs deleteExpired later, as a step of its own.             *)
(***************************************************************************)
MemKeys == {"k1", "k2"}
MemValues == {"r1", "r2"}
\* cs.ttl, in clock ticks
MemTTL == 1
\* the clock stops advancing here
MaxMemClock == 3
\* deleteExpired goroutines pending per key
MaxExpirers == 2

NoEntry == [exists |-> FALSE]
MemEntry(value, at) == [exists |-> TRUE, value |-> value, timestamp |-> at]

\* CacheService.isExpired(key) for a key of cs.cache
isExpired(key) == memNow - memCache[key].timestamp > MemTTL

MemIdle ==
    /\ memCache = [k \in MemKeys |-> NoEntry]
    /\ memNow = 0
    /\ memExpirers = [k \in MemKeys |-> 0]
    /\ memGot = [key |-> "", found |-> FALSE]

\* CacheService.Get on a key that is absent
MemGetMiss(key) ==
    /\ ~memCache[key].exists
    /\ memGot' = [key |-> key, found |-> FALSE]
    /\ UNCHANGED <<memCache, memNow, memExpirers>>

\* CacheService.Get on a live entry
MemGetHit(key) ==
    /\ memCache[key].exists
    /\ ~isExpired(key)
    /\ memGot' = [key |-> key, found |-> TRUE, value |-> memCache[key].value]
    /\ UNCHANGED <<memCache, memNow, memExpirers>>

\* CacheService.Get on an expired entry: go cs.deleteExpired(key), miss
MemGetExpired(key) ==
    /\ memCache[key].exists
    /\ isExpired(key)
    /\ memExpirers[key] < MaxExpirers
    /\ memExpirers' = [memExpirers EXCEPT ![key] = @ + 1]
    /\ memGot' = [key |-> key, found |-> FALSE]
    /\ UNCHANGED <<memCache, memNow>>

\* CacheService.Set
MemSet(key, value) ==
    /\ memCache' = [memCache EXCEPT ![key] = MemEntry(value, memNow)]
    /\ UNCHANGED <<memNow, memExpirers, memGot>>

\* CacheService.Delete
MemDelete(key) ==
    /\ memCache[key].exists
    /\ memCache' = [memCache EXCEPT ![key] = NoEntry]
    /\ UNCHANGED <<memNow, memExpirers, memGot>>

\* CacheService.Clear
MemClear ==
    /\ \E k \in MemKeys : memCache[k].exists
    /\ memCache' = [k \in MemKeys |-> NoEntry]
    /\ UNCHANGED <<memNow, memExpirers, memGot>>

\* CacheService.CleanupExpired (the ticker of StartCleanupWorker)
CleanupExpired ==
    /\ \E k \in MemKeys : memCache[k].exists /\ isExpired(k)
    /\ memCache' = [k \in MemKeys |->
                       IF memCache[k].exists /\ isExpired(k)
                       THEN NoEntry ELSE memCache[k]]
    /\ UNCHANGED <<memNow, memExpirers, memGot>>

\* CacheService.deleteExpired(key), in the goroutine Get started
deleteExpired(key) ==
    /\ memExpirers[key] > 0
    /\ memExpirers' = [memExpirers EXCEPT ![key] = @ - 1]
    /\ memCache' = [memCache EXCEPT ![key] = NoEntry]
    /\ UNCHANGED <<memNow, memGot>>

\* time passes
MemTick ==
    /\ memNow < MaxMemClock
    /\ memNow' = memNow + 1
    /\ UNCHANGED <<memCache, memExpirers, memGot>>

MemOthersUnchanged ==
    UNCHANGED <<index, batchVars, cacheVars, histVars, matcherVars,
                finderVars, seedVars, normalizerVars>>

ToolsIdle == NormalizerIdle /\ MemIdle

\* a caller hands a raw address to the normalizer
ReceiveAddress(input) ==
    /\ rawInput = <<>>
    /\ normalization = NotNormalized
    /\ input # <<>>
    /\ rawInput' = input
    /\ UNCHANGED <<index, batchVars, cacheVars, histVars, matcherVars,
                   finderVars, seedVars, memVars, normalization>>

\* TextNormalizerV2.NormalizeAddress(rawInput)
NormalizeAddress ==
    /\ rawInput # <<>>
    /\ ~normalization.done
    /\ normalization' = NormalizationOf(rawInput)
    /\ UNCHANGED <<index, batchVars, cacheVars, histVars, matcherVars,
                   finderVars, seedVars, memVars, rawInput>>

\* the matcher, the candidate builder and the seeder at rest
EngineIdle == MatcherIdle /\ FinderIdle /\ SeederIdle /\ ToolsIdle

(***************************************************************************)
(* Batch jobs.                                                             *)
(***************************************************************************)
JobIds == {GeneratedUUIDs[k] : k \in 1..Len(GeneratedUUIDs)}

\* responses: JobStatusPending, JobStatusRunning, JobStatusDone, JobStatusFailed
JobStatusValues == {"pending", "running", "done", "failed"}

NoJob == [exists |-> FALSE]
\* Progress is float64(i+1)/float64(len(addresses)), kept as a fraction
JobStatus(status, processed, total, message) ==
    [exists |-> TRUE, Status |-> status,
     Progress |-> [num |-> processed, den |-> total],
     Processed |-> processed, Total |-> total,
     EstimatedRemaining |-> 0, Message |-> message]

MsgRunning == "Dang xu ly..."
MsgDone == "Hoan thanh xu ly"

NoResults == [exists |-> FALSE, results |-> <<>>]

IdleWorker == [pc |-> "none", addresses |-> <<>>, options |-> [use_cache |-> FALSE, min_confidence |-> 0],
               i |-> 0, results |-> <<>>, erred |-> {}]

IdleHandler == [pc |-> "idle"]

BatchRequests ==
    UNION {[1..n -> BatchAddresses] : n \in 0..(MaxBatchAddresses + 1)}

\* the result ProcessBatchJob substitutes for an item whose parse failed
ErrorResult(address) == AddressResult(address, 0, StatusUnmatched)

\* AddressController.BatchParse: binding (min=1,max=20000) and the explicit
\* size check reject with 400; otherwise a job id is generated, the worker
\* goroutine is started and 202 is answered.
\* variant: the cap lets one more address through
BatchTooLargeByOne(n) == n > MaxBatchAddresses + 1

\* the cap of the binding (max=20000) and of the explicit check (line 99)
BatchTooLarge(n) == n > MaxBatchAddresses

BatchParseRejected(addresses) ==
    /\ Len(addresses) = 0 \/ BatchTooLarge(Len(addresses))
    /\ batchResp' = [code |-> 400, job |-> "", total |-> Len(addresses)]
    /\ UNCHANGED <<cacheVars, histVars, engineVars, index, jobs, jobResults, worker, nextJob, handler>>

BatchParseAccepted(addresses, options) ==
    /\ Len(addresses) >= 1
    /\ ~BatchTooLarge(Len(addresses))
    /\ nextJob < Len(GeneratedUUIDs)
    /\ nextJob' = nextJob + 1
    /\ worker' = [worker EXCEPT ![GeneratedUUIDs[nextJob + 1]] =
                     [pc |-> "register", addresses |-> addresses,
                      options |-> options, i |-> 0,
                      results |-> [k \in 1..Len(addresses) |-> NoResult],
                      erred |-> {}]]
    /\ batchResp' = [code |-> 202, job |-> GeneratedUUIDs[nextJob + 1], total |-> Len(addresses)]
    /\ UNCHANGED <<cacheVars, histVars, engineVars, index, jobs, jobResults, handler>>

BatchParse ==
    \E addresses \in BatchRequests :
        \/ BatchParseRejected(addresses)
        \/ \E options \in BatchOptions : BatchParseAccepted(addresses, options)

\* ProcessBatchJob, lines 257-268: register the job as running (under as.mu)
RegisterJob(j) ==
    /\ worker[j].pc = "register"
    /\ jobs' = [jobs EXCEPT ![j] =
                   JobStatus("running", 0, Len(worker[j].addresses), MsgRunning)]
    /\ worker' = [worker EXCEPT ![j].pc = "parse"]
    /\ UNCHANGED <<cacheVars, histVars, engineVars, index, jobResults, nextJob, handler, batchResp>>

\* (mutant) results collected back to front
ResultSlotReversed(i, n) == n + 1 - i

\* the slot of the n-element results slice that item i's result is written to
ResultSlot(i, n) == i

\* (mutant) the error branch forgets to build the substitute result
ItemResultUnchecked(address, outcome) == outcome.result

\* what is stored for item i given the outcome of ParseAddress
ItemResult(address, outcome) ==
    IF outcome.err THEN ErrorResult(address) ELSE outcome.result

\* ProcessBatchJob, lines 273-283: parse item i and store it in results[i]
ParseItem(j) ==
    /\ worker[j].pc = "parse"
    /\ \E reach \in SearchReach :
        LET w == worker[j]
            i == w.i + 1
            outcome == ParseAddress(w.addresses[i], w.options, index, reach)
        IN worker' = [worker EXCEPT
                ![j].results[ResultSlot(i, Len(w.addresses))] = ItemResult(w.addresses[i], outcome),
                ![j].erred = IF outcome.err THEN w.erred \cup {i} ELSE w.erred,
                ![j].pc = "progress"]
    /\ UNCHANGED <<cacheVars, histVars, engineVars, index, jobs, jobResults, nextJob, handler, batchResp>>

\* (mutant) the test compares with the length instead of the last index
LastItemOffByOne(i, n) == i = n + 1

\* line 292, i == len(addresses)-1, for the 1-based count i of items done
LastItem(i, n) == i = n

\* ProcessBatchJob, lines 286-297: update the counters under as.mu
UpdateProgress(j) ==
    /\ worker[j].pc = "progress"
    /\ LET w == worker[j]
           i == w.i + 1
           n == Len(w.addresses)
       IN /\ jobs' = IF jobs[j].exists
                     THEN [jobs EXCEPT
                            ![j].Processed = i,
                            ![j].Progress = [num |-> i, den |-> n],
                            ![j].Status = IF LastItem(i, n) THEN "done" ELSE @,
                            ![j].Message = IF LastItem(i, n) THEN MsgDone ELSE @]
                     ELSE jobs
          /\ worker' = [worker EXCEPT ![j].i = i,
                                      ![j].pc = IF i = n THEN "store" ELSE "parse"]
    /\ UNCHANGED <<cacheVars, histVars, engineVars, index, jobResults, nextJob, handler, batchResp>>

\* ProcessBatchJob, lines 301-303: publish the results slice under as.mu
StoreResults(j) ==
    /\ worker[j].pc = "store"
    /\ jobResults' = [jobResults EXCEPT ![j] =
                        [exists |-> TRUE, results |-> worker[j].results]]
    /\ worker' = [worker EXCEPT ![j].pc = "finished"]
    /\ UNCHANGED <<cacheVars, histVars, engineVars, index, jobs, nextJob, handler, batchResp>>

ProcessBatchJob ==
    \E j \in JobIds :
        \/ RegisterJob(j)
        \/ ParseItem(j)
        \/ UpdateProgress(j)
        \/ StoreResults(j)

(***************************************************************************)
(* GET /v1/addresses/jobs/{id}/status                                      *)
(***************************************************************************)
\* AddressService.GetJobStatus under RLock returns the registry's own
\* *JobStatus (no copy); the controller then reads its fields one by one
\* while building the response. "held" is the value the job had when the
\* lock was released.
GetJobStatus(j) ==
    /\ handler.pc = "idle"
    /\ handler' = IF jobs[j].exists
                  THEN [pc |-> "rd_status", kind |-> "status", job |-> j,
                        code |-> 200, held |-> jobs[j], body |-> jobs[j],
                        data |-> ""]
                  ELSE [pc |-> "respond", kind |-> "status", job |-> j,
                        code |-> 404]
    /\ UNCHANGED <<cacheVars, histVars, engineVars, index, jobs, jobResults, worker, nextJob, batchResp>>

\* the job record a field read of the handler sees
Deref(h) == jobs[h.job]

\* A Go string is two words, a data pointer and a length, and the handler
\* reads the job's strings without the registry mutex: the two words are
\* loaded one after the other. StrLen is the byte length of the literals
\* ProcessBatchJob assigns.
StrLen(s) ==
    CASE s = "running" -> 7
      [] s = "done" -> 4
      [] s = MsgRunning -> 17
      [] s = MsgDone -> 21
      [] OTHER -> 0

\* the string a data pointer and a length denote: the literal itself when
\* both words come from one assignment, otherwise bytes that are no literal
\* of the program (a prefix, or the literal and what follows it in memory)
GoString(data, len) ==
    IF len = StrLen(data)
    THEN data
    ELSE data \o "[:" \o ToString(len) \o "]"

\* line 144, first word of status.Status
ReadStatus ==
    /\ handler.pc = "rd_status"
    /\ handler' = [handler EXCEPT !.pc = "rd_status_len",
                                  !.data = Deref(handler).Status]
    /\ UNCHANGED <<cacheVars, histVars, engineVars, index, jobs, jobResults, worker, nextJob, batchResp>>

\* line 144, second word of status.Status
ReadStatusLen ==
    /\ handler.pc = "rd_status_len"
    /\ handler' = [handler EXCEPT
                     !.pc = "rd_progress",
                     !.body.Status = GoString(handler.data,
                                              StrLen(Deref(handler).Status))]
    /\ UNCHANGED <<cacheVars, histVars, engineVars, index, jobs, jobResults, worker, nextJob, batchResp>>

ReadProgress ==
    /\ handler.pc = "rd_progress"
    /\ handler' = [handler EXCEPT !.pc = "rd_processed",
                                  !.body.Progress = Deref(handler).Progress]
    /\ UNCHANGED <<cacheVars, histVars, engineVars, index, jobs, jobResults, worker, nextJob, batchResp>>

\* Processed, Total and EstimatedRemaining (the last two are never written
\* after the job is registered)
ReadProcessed ==
    /\ handler.pc = "rd_processed"
    /\ handler' = [handler EXCEPT
                     !.pc = "rd_message",
                     !.body.Processed = Deref(handler).Processed,
                     !.body.Total = Deref(handler).Total,
                     !.body.EstimatedRemaining = Deref(handler).EstimatedRemaining]
    /\ UNCHANGED <<cacheVars, histVars, engineVars, index, jobs, jobResults, worker, nextJob, batchResp>>

\* line 149, first word of status.Message
ReadMessage ==
    /\ handler.pc = "rd_message"
    /\ handler' = [handler EXCEPT !.pc = "rd_message_len",
                                  !.data = Deref(handler).Message]
    /\ UNCHANGED <<cacheVars, histVars, engineVars, index, jobs, jobResults, worker, nextJob, batchResp>>

\* line 149, second word of status.Message
ReadMessageLen ==
    /\ handler.pc = "rd_message_len"
    /\ handler' = [handler EXCEPT
                     !.pc = "respond",
                     !.body.Message = GoString(handler.data,
                                               StrLen(Deref(handler).Message))]
    /\ UNCHANGED <<cacheVars, histVars, engineVars, index, jobs, jobResults, worker, nextJob, batchResp>>

(***************************************************************************)
(* GET /v1/addresses/jobs/{id}/results                                     *)
(***************************************************************************)
\* format=json: AddressService.GetJobResults under RLock, then c.JSON
GetJobResults(j) ==
    /\ handler.pc = "idle"
    /\ handler' = IF jobResults[j].exists
                  THEN [pc |-> "respond", kind |-> "json", job |-> j,
                        code |-> 200, body |-> jobResults[j].results]
                  ELSE [pc |-> "respond", kind |-> "json", job |-> j,
                        code |-> 404]
    /\ UNCHANGED <<cacheVars, histVars, engineVars, index, jobs, jobResults, worker, nextJob, batchResp>>

\* format=ndjson: GetJobResultsStream starts a producer goroutine feeding a
\* buffered channel; streamNDJSONResults encodes what it receives.
GetJobResultsStream(j) ==
    /\ handler.pc = "idle"
    /\ handler' = IF jobResults[j].exists
                  THEN [pc |-> "stream", job |-> j,
                        results |-> jobResults[j].results,
                        sent |-> 0, chan |-> <<>>, closed |-> FALSE,
                        out |-> <<>>]
                  ELSE [pc |-> "respond", kind |-> "ndjson", job |-> j,
                        code |-> 404]
    /\ UNCHANGED <<cacheVars, histVars, engineVars, index, jobs, jobResults, worker, nextJob, batchResp>>

\* the channel after the producer sends x
ChanSend(chan, x) == Append(chan, x)

\* producer goroutine: for _, result := range results { ch <- result }; close
StreamProduce ==
    /\ handler.pc = "stream"
    /\ ~handler.closed
    /\ IF handler.sent < Len(handler.results)
       THEN /\ Len(handler.chan) < ResultChanCap
            /\ handler' = [handler EXCEPT
                             !.chan = ChanSend(@, handler.results[handler.sent + 1]),
                             !.sent = @ + 1]
       ELSE handler' = [handler EXCEPT !.closed = TRUE]
    /\ UNCHANGED <<cacheVars, histVars, engineVars, index, jobs, jobResults, worker, nextJob, batchResp>>

\* consumer: for result := range resultChannel { encoder.Encode; Flush }
StreamConsume ==
    /\ handler.pc = "stream"
    /\ Len(handler.chan) > 0
    /\ handler' = [handler EXCEPT !.out = Append(@, Head(handler.chan)),
                                  !.chan = Tail(@)]
    /\ UNCHANGED <<cacheVars, histVars, engineVars, index, jobs, jobResults, worker, nextJob, batchResp>>

\* the range loop ends when the channel is closed and drained, or the
\* encoder fails (client gone) and the loop breaks
StreamEnd ==
    /\ handler.pc = "stream"
    /\ \/ handler.closed /\ Len(handler.chan) = 0
       \/ Len(handler.out) < Len(handler.results)
    /\ handler' = [pc |-> "respond", kind |-> "ndjson", job |-> handler.job,
                   code |-> 200, body |-> handler.out,
                   complete |-> (handler.closed /\ Len(handler.chan) = 0)]
    /\ UNCHANGED <<cacheVars, histVars, engineVars, index, jobs, jobResults, worker, nextJob, batchResp>>

\* the response leaves the handler
Respond ==
    /\ handler.pc = "respond"
    /\ handler' = IdleHandler
    /\ UNCHANGED <<cacheVars, histVars, engineVars, index, jobs, jobResults, worker, nextJob, batchResp>>

JobStatusHandler ==
    \/ \E j \in JobIds : GetJobStatus(j)
    \/ ReadStatus
    \/ ReadStatusLen
    \/ ReadProgress
    \/ ReadProcessed
    \/ ReadMessage
    \/ ReadMessageLen

JobResultsHandler ==
    \/ \E j \in JobIds : GetJobResults(j)
    \/ \E j \in JobIds : GetJobResultsStream(j)
    \/ StreamProduce
    \/ StreamConsume
    \/ StreamEnd

InitJobs ==
    /\ jobs = [j \in JobIds |-> NoJob]
    /\ jobResults = [j \in JobIds |-> NoResults]
    /\ worker = [j \in JobIds |-> IdleWorker]
    /\ nextJob = 0
    /\ handler = IdleHandler
    /\ batchResp = [code |-> 0, job |-> "", total |-> 0]

InitBatch ==
    /\ index = InitIndex
    /\ InitJobs
    /\ InitCache("mongo")
    /\ EngineIdle

\* SpecBatch follows the first job through its whole life, with the status
\* and result handlers reading it; SpecPool follows the workers of all jobs.
NextBatch ==
    \/ BatchParse /\ nextJob' <= 1
    \/ ProcessBatchJob
    \/ JobStatusHandler
    \/ JobResultsHandler
    \/ Respond

SpecBatch == InitBatch /\ [][NextBatch]_vars

(***************************************************************************)
(* Single parses without the cache, over every gazetteer content, searcher *)
(* reach and min_confidence: AddressService.ParseAddress as a function of  *)
(* its inputs, reached through the controller.                             *)
(***************************************************************************)
\* min_confidence is an unvalidated float64 of the request
ParseMinConfidences == {0, 50, 95, 150}
ParseInputOptions == [use_cache : {FALSE}, min_confidence : ParseMinConfidences]
ParseInputs == Addresses \cup {EmptyAddress}

InitParse ==
    /\ index \in [Addresses -> MatchLevels]
    /\ InitJobs
    /\ InitCache("mongo")
    /\ EngineIdle

ParseObs == UNCHANGED <<histVars, engineVars>>

NextParse ==
    \/ ParseAddressRejected("t1") /\ ParseObs
    \/ \E a \in ParseInputs, o \in ParseInputOptions :
          ParseAddressStart("t1", a, o) /\ ParseObs
    \/ \E reach \in SearchReach : ParseWith("t1", reach) /\ ParseObs
    \/ Done("t1") /\ ParseObs

SpecParse == InitParse /\ [][NextParse]_vars

\* requests of SpecPool: well-formed batches with default options
PoolOptions == [use_cache : {FALSE}, min_confidence : {0}]

NextPool ==
    \/ \E addresses \in BatchRequests : BatchParseRejected(addresses)
    \/ \E addresses \in BatchRequests, options \in PoolOptions :
          BatchParseAccepted(addresses, options)
    \/ \E j \in JobIds : RegisterJob(j)
    \/ \E j \in JobIds : ParseItem(j)
    \/ \E j \in JobIds : UpdateProgress(j)
    \/ \E j \in JobIds : StoreResults(j)

SpecPool == InitBatch /\ [][NextPool]_vars

(***************************************************************************)
(* MatchAddress executed twice on one normalized address, over every       *)
(* address of up to MaxTextWords words.                                    *)
(***************************************************************************)
InitMatch ==
    /\ index = InitIndex
    /\ InitJobs
    /\ InitCache("mongo")
    /\ normalized \in MatchInputs
    /\ matchResult = [e \in Executions |-> NoMatchResult]
    /\ FinderIdle
    /\ SeederIdle
    /\ ToolsIdle

NextMatch == \E e \in Executions : MatchAddress(e)

SpecMatch == InitMatch /\ [][NextMatch]_vars

(***************************************************************************)
(* One FindCandidates call, over every set of units the query text may     *)
(* match.                                                                  *)
(***************************************************************************)
InitFind ==
    /\ index = InitIndex
    /\ InitJobs
    /\ InitCache("mongo")
    /\ MatcherIdle
    /\ hits \in SUBSET UnitIds
    /\ finder = IdleFinder
    /\ heap = <<>>
    /\ SeederIdle
    /\ ToolsIdle

NextFind ==
    \/ FindProvinces
    \/ FindProvincesFailed
    \/ FindDistricts
    \/ FindWards
    \/ BuildPath
    \/ ReturnPaths

SpecFind == InitFind /\ [][NextFind]_vars

(***************************************************************************)
(* One live seed, over every version, data and rebuild_indexes, with the   *)
(* readers of the collection and of the index running beside it.           *)
(***************************************************************************)
NextSeed ==
    \/ \E v \in Versions, d \in SeedDatas, r \in BOOLEAN : SeedRejected(v, d, r)
    \/ \E v \in Versions, d \in SeedDatas, r \in BOOLEAN : SeedValidated(v, d, r)
    \/ DeleteOldUnits
    \/ DeleteFailed
    \/ InsertUnit
    \/ InsertFailed
    \/ InsertDone
    \/ SeedBatch
    \/ SeedBatchFailed
    \/ SeedDataDone
    \/ ExportData
    \/ SearchDocuments

SpecSeed == InitBatch /\ [][NextSeed]_vars


(***************************************************************************)
(* The cache as deployed by cmd/api/main.go: MongoCacheService alone.      *)
(***************************************************************************)
InitMongo ==
    /\ index = InitIndex
    /\ InitJobs
    /\ InitCache("mongo")
    /\ EngineIdle

\* addresses of the single-address requests
MongoAddresses == {"a1"}

\* history kept under SpecMongo
MongoObs == TrackInvalidated /\ UNCHANGED <<pair, engineVars>>

\* requests arrive one at a time
NextMongo ==
    \/ ParseAddressRejected("t1") /\ MongoObs
    \/ \E a \in MongoAddresses, o \in CacheOptions :
          ParseAddressStart("t1", a, o) /\ MongoObs
    \/ ParseAfterGet("t1") /\ MongoObs
    \/ ParseAddressStep("t1") /\ MongoObs
    \/ ParseAfterSet("t1") /\ MongoObs
    \/ \E v \in Versions, d \in SeedIndexes, r \in BOOLEAN :
          SeedGazetteer("t1", v, d, r) /\ MongoObs
    \/ SeedAfterInvalidate("t1") /\ MongoObs
    \/ \E v \in Versions : InvalidateCache("t1", v) /\ MongoObs
    \/ InvalidateCacheReturn("t1") /\ MongoObs
    \/ Done("t1") /\ MongoObs
    \/ MongoGetL1("t1") /\ MongoObs
    \/ MongoGetFind("t1") /\ MongoObs
    \/ MongoGetAdd("t1") /\ MongoObs
    \/ MongoSetL1("t1") /\ MongoObs
    \/ MongoSetReplace("t1") /\ MongoObs
    \/ MongoInvalidatePurge("t1") /\ MongoObs
    \/ MongoInvalidateDelete("t1") /\ MongoObs
    \/ \E id \in ObjectIDs : UpdateAccessStats(id) /\ MongoObs

SpecMongo == InitMongo /\ [][NextMongo]_vars

(***************************************************************************)
(* MongoCacheService over time: the clock advances, the editorial review   *)
(* marks entries, entries of two addresses compete for the LRU.            *)
(***************************************************************************)
StoreObs == UNCHANGED <<histVars, engineVars>>

NextStore ==
    \/ \E a \in Addresses :
          ParseAddressStart("t1", a, [use_cache |-> TRUE, min_confidence |-> 0])
            /\ StoreObs
    \/ ParseAfterGet("t1") /\ StoreObs
    \/ ParseAddressStep("t1") /\ StoreObs
    \/ ParseAfterSet("t1") /\ StoreObs
    \/ \E v \in Versions : InvalidateCache("t1", v) /\ StoreObs
    \/ InvalidateCacheReturn("t1") /\ StoreObs
    \/ Done("t1") /\ StoreObs
    \/ MongoGetL1("t1") /\ StoreObs
    \/ MongoGetFind("t1") /\ StoreObs
    \/ MongoGetAdd("t1") /\ StoreObs
    \/ MongoSetL1("t1") /\ StoreObs
    \/ MongoSetReplace("t1") /\ StoreObs
    \/ MongoInvalidatePurge("t1") /\ StoreObs
    \/ MongoInvalidateDelete("t1") /\ StoreObs
    \/ \E id \in ObjectIDs : UpdateAccessStats(id) /\ StoreObs
    \/ \E a \in Addresses : MarkManuallyVerified(generateFingerprint(a)) /\ StoreObs
    \/ WarmUp(L1Size) /\ StoreObs
    \/ Tick /\ StoreObs

SpecStore == InitMongo /\ [][NextStore]_vars

(***************************************************************************)
(* Concurrent requests on one address against MongoCacheService.           *)
(***************************************************************************)
\* an address the index does not know: its result depends on min_confidence
RaceAddresses == {"a2"}
RaceOptions == [use_cache : {TRUE}, min_confidence : MinConfidences]
RaceObs == UNCHANGED <<histVars, engineVars>>

\* t1 parses; t2 parses, deletes or invalidates at the same time
NextRace ==
    \/ \E t \in Tasks, a \in RaceAddresses, o \in RaceOptions :
          ParseAddressStart(t, a, o) /\ RaceObs
    \/ \E t \in Tasks : ParseAfterGet(t) /\ RaceObs
    \/ \E t \in Tasks : ParseAddressStep(t) /\ RaceObs
    \/ \E t \in Tasks : ParseAfterSet(t) /\ RaceObs
    \/ \E v \in Versions : InvalidateCache("t2", v) /\ RaceObs
    \/ InvalidateCacheReturn("t2") /\ RaceObs
    \/ \E a \in RaceAddresses : CacheDelete("t2", a) /\ RaceObs
    \/ CacheCallReturn("t2") /\ RaceObs
    \/ \E t \in Tasks : Done(t) /\ RaceObs
    \/ \E t \in Tasks : MongoGetL1(t) /\ RaceObs
    \/ \E t \in Tasks : MongoGetFind(t) /\ RaceObs
    \/ \E t \in Tasks : MongoGetAdd(t) /\ RaceObs
    \/ \E t \in Tasks : MongoSetL1(t) /\ RaceObs
    \/ \E t \in Tasks : MongoSetReplace(t) /\ RaceObs
    \/ MongoDeleteL1("t2") /\ RaceObs
    \/ MongoDeleteOne("t2") /\ RaceObs
    \/ MongoInvalidatePurge("t2") /\ RaceObs
    \/ MongoInvalidateDelete("t2") /\ RaceObs
    \/ \E id \in ObjectIDs : UpdateAccessStats(id) /\ RaceObs

SpecRace == InitMongo /\ [][NextRace]_vars

(***************************************************************************)
(* The cache as wired by the second entry point (unnamed/part_003):        *)
(* HybridCacheService over Redis and MongoCacheService.                    *)
(***************************************************************************)
InitHybrid ==
    /\ index = InitIndex
    /\ InitJobs
    /\ InitCache("hybrid")
    /\ EngineIdle

HybridObs == TrackPair /\ UNCHANGED <<invalidated, engineVars>>

\* requests arrive one at a time; the goroutines they leave behind run on
NextHybrid ==
    \/ \E a \in RaceAddresses, o \in RaceOptions :
          ParseAddressStart("t1", a, o) /\ HybridObs
    \/ ParseAfterGet("t1") /\ HybridObs
    \/ ParseAddressStep("t1") /\ HybridObs
    \/ ParseAfterSet("t1") /\ HybridObs
    \/ \E v \in Versions : InvalidateCache("t1", v) /\ HybridObs
    \/ InvalidateCacheReturn("t1") /\ HybridObs
    \/ \E a \in RaceAddresses : CacheDelete("t1", a) /\ HybridObs
    \/ CacheClear("t1") /\ HybridObs
    \/ CacheCallReturn("t1") /\ HybridObs
    \/ Done("t1") /\ HybridObs
    \/ MongoGetL1("t1") /\ HybridObs
    \/ MongoGetFind("t1") /\ HybridObs
    \/ MongoGetAdd("t1") /\ HybridObs
    \/ MongoSetL1("t1") /\ HybridObs
    \/ MongoSetReplace("t1") /\ HybridObs
    \/ MongoDeleteL1("t1") /\ HybridObs
    \/ MongoDeleteOne("t1") /\ HybridObs
    \/ MongoClearPurge("t1") /\ HybridObs
    \/ MongoClearMany("t1") /\ HybridObs
    \/ MongoInvalidatePurge("t1") /\ HybridObs
    \/ MongoInvalidateDelete("t1") /\ HybridObs
    \/ RedisGet("t1") /\ HybridObs
    \/ RedisSet("t1") /\ HybridObs
    \/ RedisDelete("t1") /\ HybridObs
    \/ RedisClearKeys("t1") /\ HybridObs
    \/ RedisClearDel("t1") /\ HybridObs
    \/ \E p \in populate : SyncToRedis(p) /\ HybridObs
    \/ \E k \in RedisKeys : RedisExpire(k) /\ HybridObs
    \/ \E id \in ObjectIDs : UpdateAccessStats(id) /\ HybridObs

SpecHybrid == InitHybrid /\ [][NextHybrid]_vars

(***************************************************************************)
(* Claims about batch jobs, checked under SpecBatch.                       *)
(***************************************************************************)
\* every result a parse of `address` under `options` can produce
ParseResultsOf(address, options) ==
    {ItemResult(address, ParseAddress(address, options, index, reach)) :
        reach \in SearchReach}

\* the sequence `out` is, position by position, results of parsing the
\* addresses of job j
InInputOrder(out, j) ==
    /\ Len(out) <= Len(worker[j].addresses)
    /\ \A i \in 1..Len(out) :
          /\ out[i].raw = worker[j].addresses[i]
          /\ out[i] \in ParseResultsOf(worker[j].addresses[i], worker[j].options)

\* C8: for every batch job, the result at output position i, in the JSON
\* array and in the NDJSON stream, is the result of parsing the input
\* address at index i; the JSON array and a completed stream hold one entry
\* per input address.
C8_BatchOrderPreserved ==
    /\ handler.pc = "stream" => InInputOrder(handler.out, handler.job)
    /\ (handler.pc = "respond" /\ handler.kind \in {"json", "ndjson"}
          /\ handler.code = 200)
         => /\ InInputOrder(handler.body, handler.job)
            /\ (handler.kind = "json" \/ handler.complete)
                 => Len(handler.body) = Len(worker[handler.job].addresses)

\* C8 witness: a completed NDJSON stream of two different addresses
C8_Witness ==
    /\ handler.pc = "respond"
    /\ handler.kind = "ndjson"
    /\ handler.code = 200
    /\ handler.complete
    /\ Len(handler.body) = 2
    /\ handler.body[1].raw # handler.body[2].raw

\* C9: a parse error on an item never fails or aborts the batch: the job is
\* never marked failed, the worker goes on to the last item, and the
\* offending item appears at its own index as an unmatched result.
C9_ItemErrorsBecomeUnmatched ==
    \A j \in JobIds :
        LET w == worker[j] IN
        /\ jobs[j].exists => jobs[j].Status \in {"running", "done"}
        /\ w.pc \in {"store", "finished"} => w.i = Len(w.addresses)
        /\ \A i \in 1..w.i :
              (i \in w.erred \/ w.addresses[i] = EmptyAddress)
                 => w.results[i] = AddressResult(w.addresses[i], 0, StatusUnmatched)
        /\ jobResults[j].exists
             => /\ Len(jobResults[j].results) = Len(w.addresses)
                /\ \A i \in 1..Len(w.addresses) :
                      /\ jobResults[j].results[i].raw = w.addresses[i]
                      /\ (i \in w.erred \/ w.addresses[i] = EmptyAddress)
                           => jobResults[j].results[i].status = StatusUnmatched

\* C9 witness: a stored batch whose first item failed and whose second item
\* was still parsed and matched
C9_Witness ==
    \E j \in JobIds :
        /\ jobResults[j].exists
        /\ Len(worker[j].addresses) = 2
        /\ 1 \in worker[j].erred
        /\ jobResults[j].results[1].status = StatusUnmatched
        /\ jobResults[j].results[2].status = StatusMatched

\* C10: the job status handed to a caller is a copy taken under the
\* registry mutex: what the status endpoint answers is the value the job
\* had when the lock was released, whatever the worker does afterwards.
C10_StatusIsCopy ==
    (handler.pc = "respond" /\ handler.kind = "status" /\ handler.code = 200)
        => handler.body = handler.held

\* C11: whenever the job-status endpoint answers for a job, the status it
\* reports is one of pending, running, done, failed and the progress it
\* reports lies in [0,1].
C11_StatusAndProgressInRange ==
    (handler.pc = "respond" /\ handler.kind = "status" /\ handler.code = 200)
        => /\ handler.body.Status \in JobStatusValues
           /\ handler.body.Progress.den > 0
           /\ handler.body.Progress.num >= 0
           /\ handler.body.Progress.num <= handler.body.Progress.den


\* C12: a batch submission with more than the allowed number of addresses
\* is answered 400, and it neither creates nor starts a job.
C12_OversizedBatchRejected ==
    [][(batchResp' # batchResp /\ batchResp'.total > MaxBatchAddresses)
          => /\ batchResp'.code = 400
             /\ UNCHANGED <<jobs, jobResults, worker, nextJob>>]_vars

\* C12 witness: the smallest oversized batch has been rejected and no job
\* exists
C12_Witness ==
    /\ batchResp.code = 400
    /\ batchResp.total = MaxBatchAddresses + 1
    /\ nextJob = 0
    /\ \A j \in JobIds : ~jobs[j].exists /\ worker[j].pc = "none"

\* the workers that are executing ProcessBatchJob
RunningWorkers ==
    {j \in JobIds : worker[j].pc \in {"register", "parse", "progress", "store"}}

\* C13: the number of batch workers executing at the same time never
\* exceeds the pool size, here a pool one worker smaller than the number of
\* submissions explored (a submission that finds the pool full is turned
\* away with a retryable error instead of being started).
C13_WorkersBounded == Cardinality(RunningWorkers) < Len(GeneratedUUIDs)

(***************************************************************************)
(* Claims about single parses, checked under SpecParse.                    *)
(***************************************************************************)
\* request t is a single-address parse that has been answered
ParseAnswered(t) == task[t].pc = "respond" /\ task[t].op = "parse"

\* C14: a single-address parse request whose address is empty is answered
\* with HTTP 400.
C14_EmptyAddressIs400 ==
    \A t \in Tasks :
        (ParseAnswered(t) /\ task[t].key = EmptyAddress) => task[t].code = 400

\* C14 witness: a request with an empty address has been answered
C14_Witness ==
    \E t \in Tasks :
        ParseAnswered(t) /\ task[t].key = EmptyAddress /\ task[t].code = 400

\* C15: every returned result is matched when its confidence is at least
\* the high threshold, needs_review when it lies between the review
\* threshold and the high threshold, unmatched below the review threshold;
\* no other status is produced.
C15_StatusFollowsThresholds ==
    \A t \in Tasks :
        (ParseAnswered(t) /\ task[t].code = 200)
            => LET r == task[t].result IN
               /\ r.status \in {StatusMatched, StatusNeedsReview, StatusUnmatched}
               /\ r.confidence >= ThresholdHigh => r.status = StatusMatched
               /\ (r.confidence >= ThresholdReviewLow /\ r.confidence < ThresholdHigh)
                     => r.status = StatusNeedsReview
               /\ r.confidence < ThresholdReviewLow => r.status = StatusUnmatched

\* C16: the confidence of every returned result lies in [0,1] (0..100
\* percent), whatever the options of the request.
C16_ConfidenceInUnitInterval ==
    \A t \in Tasks :
        (ParseAnswered(t) /\ task[t].code = 200)
            => task[t].result.confidence \in 0..100

\* C17: a parse during which the gazetteer index is unreachable does not
\* fail: it is answered 200 with a result whose status is unmatched.
C17_UnreachableIndexIsUnmatched ==
    \A t \in Tasks :
        (ParseAnswered(t) /\ task[t].index_down)
            => /\ task[t].code = 200
               /\ task[t].result.status = StatusUnmatched

(***************************************************************************)
(* Claims about the cache as deployed, checked under SpecMongo.            *)
(***************************************************************************)
\* request t has been answered from the cache
ServedFromCache(t) ==
    /\ task[t].pc = "respond"
    /\ task[t].op = "parse"
    /\ task[t].code = 200
    /\ task[t].cache_hit

\* C1: every entry a cache read returns (LRU hit, MongoDB hit, entry
\* preloaded by WarmUp) carries the gazetteer version that is current at the
\* moment of return.
C1_ServedVersionIsCurrent ==
    \A t \in Tasks :
        ServedFromCache(t) => task[t].entry_version = task[t].current

\* C2: once an invalidation of version v_old has completed while another
\* version was current, no request that starts afterwards is served an
\* entry carrying v_old.
C2_InvalidatedVersionNotServed ==
    \A t \in Tasks :
        ServedFromCache(t) => task[t].entry_version \notin task[t].since

\* C5: after a successful parse the MongoDB write is fire-and-forget: once
\* the LRU write is done the response can be written, whatever the state of
\* the MongoDB write.
C5_L2WriteNotAwaited ==
    \A t \in Tasks :
        (task[t].op = "parse" /\ task[t].call = "set" /\ task[t].l1_written
            /\ task[t].mpc = "set_replace")
          => ENABLED ParseAfterSet(t)

(***************************************************************************)
(* Claims about the MongoDB tier, checked under SpecStore.                 *)
(***************************************************************************)
\* request t completes the DeleteMany of an invalidation in this step
InvalidationDeletes(t) ==
    /\ task[t].mpc = "inv_delete"
    /\ task'[t].mpc = "done"
    /\ ~task'[t].merr

\* C6: an entry marked manually_verified outlives an invalidation: it stays
\* in the durable store, whether or not its version is the current one.
C6_VerifiedSurviveInvalidation ==
    [][(\E t \in Tasks : InvalidationDeletes(t))
          => \A d \in collection : d.manually_verified => d \in collection']_vars

\* request t completes the ReplaceOne of a Set in this step
SetReplaces(t) ==
    /\ task[t].mpc = "set_replace"
    /\ task'[t].mpc = "done"
    /\ ~task'[t].merr

\* the collection holds, for the key of t, exactly what an earlier Set of
\* the same key and result left
RepeatsSet(t) ==
    \E d \in DocsWith(collection, generateFingerprint(task[t].key)) :
        d = [SetEntry(task[t].key, task[t].result, d.created_at) EXCEPT !._id = d._id]

\* C7: a Set that repeats an earlier Set of the same key and result leaves
\* the collection as the earlier one left it.
C7_RepeatedSetChangesNothing ==
    [][\A t \in Tasks : (SetReplaces(t) /\ RepeatsSet(t)) => collection' = collection]_vars

C3_RepeatedParseHitsCache ==
    \A t \in Tasks :
        (task[t].pc = "respond" /\ task[t].op = "parse" /\ task[t].quiet
            /\ task[t].first.valid /\ ~task[t].fault)
          => /\ task[t].code = 200
             /\ task[t].cache_hit
             /\ task[t].result.confidence = task[t].first.confidence
             /\ task[t].result.raw_fingerprint = task[t].first.raw_fingerprint

\* C18: two executions of the matcher on the same address return identical
\* results (normalized text, fingerprint, components and residual).
C18_ParseIsDeterministic ==
    (\A e \in Executions : matchResult[e].done)
        => matchResult[1] = matchResult[2]

\* C19: every path the candidate builder returns has a ward whose parent_id
\* is the admin_id of the path's district, and a district whose parent_id is
\* the admin_id of the path's province.
C19_PathsAreValid ==
    finder.pc = "done" =>
        \A i \in 1..Len(finder.Paths) :
            /\ finder.Paths[i].Ward.ParentID = finder.Paths[i].District.ID
            /\ finder.Paths[i].District.ParentID = finder.Paths[i].Province.ID

\* C20: whatever a reader of the admin_units collection or of the search
\* index observes while a live seed runs, fails or has ended is either the
\* complete unit set loaded before the seed or the complete set a seed that
\* went through leaves behind; never an empty or partly loaded one.
C20_ReadersSeeWholeSnapshot ==
    /\ seen.source = "admin_units" =>
          \/ seen.units = PreviousUnits
          \/ /\ seeder.pc \notin {"idle", "delete"}
             /\ seen.units = AfterSeed(PreviousUnits, seeder.data, seeder.version)
    /\ seen.source = "index" =>
          \/ seen.units = PreviousUnits
          \/ /\ seeder.pc \in {"index", "done"}
             /\ seeder.rebuild
             /\ seen.units = AfterIndexing(PreviousUnits, seeder.data, seeder.version)

\* C21: when a live seed is answered 200, the cache holds no entry of another
\* gazetteer version than the seeded one, neither in the LRU nor in the
\* collection (what it holds is what later reads are served).
C21_SeedInvalidatesCache ==
    \A t \in Tasks :
        (task[t].op = "seed" /\ task[t].pc = "respond" /\ task[t].code = 200)
          => /\ \A d \in collection : d.gazetteer_version = task[t].version
             /\ \A i \in 1..Len(l1Cache) :
                   extractGazetteerVersion(l1Cache[i].value) = task[t].version

\* the normalizer on every raw address of the alphabet
InitNormalize == InitBatch
NextNormalize ==
    \/ \E input \in RawAddresses : ReceiveAddress(input)
    \/ NormalizeAddress
SpecNormalize == InitNormalize /\ [][NextNormalize]_vars

\* C22: a raw address holding at least one letter or digit is normalized to
\* a non-empty NormalizedNoDiacritics.
C22_NormalizedNotEmpty ==
    (normalization.done /\ HasLetterOrDigit(rawInput))
      => normalization.NormalizedNoDiacritics # <<>>

HexDigits == Digits \cup {"a", "b", "c", "d", "e", "f"}

\* "sha256:" followed by exactly 64 lowercase hexadecimal digits
IsSha256Fingerprint(f) ==
    /\ Len(f) = Len(FingerprintPrefix) + 64
    /\ SubSeq(f, 1, Len(FingerprintPrefix)) = FingerprintPrefix
    /\ \A i \in (Len(FingerprintPrefix) + 1)..Len(f) : f[i] \in HexDigits

C24_DoneResultsRetrievable ==
    [][\A j \in JobIds :
          (/\ jobs[j].exists
           /\ jobs[j].Status = "done"
           /\ handler.pc = "idle"
           /\ handler'.pc = "respond"
           /\ handler'.kind \in {"json", "ndjson"}
           /\ handler'.job = j)
            => handler'.code # 404]_vars

\* C25: once a submission was answered 202 with a job id, a status request
\* for that job id is never answered job-not-found.
C25_AcceptedJobIsFound ==
    [][(/\ batchResp.code = 202
        /\ handler.pc = "idle"
        /\ handler'.pc \in {"rd_status", "respond"}
        /\ handler'.kind = "status"
        /\ handler'.job = batchResp.job)
         => handler'.code # 404]_vars

\* the steps of the ProcessBatchJob goroutine of job j
Worker(j) ==
    \/ RegisterJob(j)
    \/ ParseItem(j)
    \/ UpdateProgress(j)
    \/ StoreResults(j)

\* The Go scheduler runs every runnable goroutine, the registry mutex is
\* held for a few assignments only and each search is bounded by a timeout:
\* a worker that can take a step eventually takes it.
SpecPoolFair == SpecPool /\ \A j \in JobIds : WF_vars(Worker(j))

\* job j is done, counted in full, and its results are stored in full
JobFinished(j) ==
    /\ jobs[j].exists
    /\ jobs[j].Status = "done"
    /\ jobs[j].Processed = jobs[j].Total
    /\ jobs[j].Total = Len(worker[j].addresses)
    /\ jobs[j].Progress.num = jobs[j].Progress.den
    /\ jobResults[j].exists
    /\ Len(jobResults[j].results) = Len(worker[j].addresses)

\* C26: every accepted batch job eventually is done with processed = total
\* and progress = 1, its results stored with one entry per input address.
C26_AcceptedJobsFinish ==
    \A j \in JobIds : (worker[j].pc # "none") ~> JobFinished(j)

\* a job of two addresses went through all its steps
C26_Witness ==
    \E j \in JobIds :
        /\ worker[j].pc = "finished"
        /\ Len(worker[j].addresses) = 2
        /\ JobFinished(j)

\* the TTL cache under every interleaving of its callers, the cleanup
\* ticker and the deleteExpired goroutines
NextMem ==
    \/ \E key \in MemKeys : MemGetMiss(key) /\ MemOthersUnchanged
    \/ \E key \in MemKeys : MemGetHit(key) /\ MemOthersUnchanged
    \/ \E key \in MemKeys : MemGetExpired(key) /\ MemOthersUnchanged
    \/ \E key \in MemKeys, value \in MemValues :
          MemSet(key, value) /\ MemOthersUnchanged
    \/ \E key \in MemKeys : MemDelete(key) /\ MemOthersUnchanged
    \/ MemClear /\ MemOthersUnchanged
    \/ CleanupExpired /\ MemOthersUnchanged
    \/ \E key \in MemKeys : deleteExpired(key) /\ MemOthersUnchanged
    \/ MemTick /\ MemOthersUnchanged

SpecMem == InitBatch /\ [][NextMem]_vars

\* C27: the deletion a Get schedules for an expired entry removes only an
\* expired entry, never one a Set stored since.
C27_ExpiryKeepsNewerEntry ==
    [][\A key \in MemKeys :
          (/\ memExpirers'[key] < memExpirers[key]
           /\ memCache[key].exists
           /\ ~memCache'[key].exists)
            => isExpired(key)]_vars

\* a Get of the hybrid cache for `key` would find an entry: in Redis, in the
\* LRU of the MongoDB service or in the collection
HeldInCache(key) ==
    \/ ~redis[RedisKey(key)].nil
    \/ LruHas(l1Cache, key)
    \/ DocsWith(collection, generateFingerprint(key)) # {}

\* C28: once Delete(key) or Clear of the hybrid cache has returned without
\* error, and while no request has followed it, no Get would find the deleted
\* key (any key, for Clear): nothing running in the background puts it back.
C28_DeletedStaysOut ==
    \A t \in Tasks :
        (task[t].pc = "respond" /\ task[t].code = 200)
          => /\ task[t].op = "delete" => ~HeldInCache(task[t].key)
             /\ task[t].op = "clear" => \A a \in Addresses : ~HeldInCache(a)

(***************************************************************************)
(* Two requests parsing the same address at the same time on the hybrid    *)
(* cache, with different options: their Sets run side by side.             *)
(***************************************************************************)
NextSets ==
    \/ \E t \in Tasks, a \in RaceAddresses, o \in RaceOptions :
          ParseAddressStart(t, a, o) /\ RaceObs
    \/ \E t \in Tasks : ParseAfterGet(t) /\ RaceObs
    \/ \E t \in Tasks : ParseAddressStep(t) /\ RaceObs
    \/ \E t \in Tasks : ParseAfterSet(t) /\ RaceObs
    \/ \E t \in Tasks : Done(t) /\ RaceObs
    \/ \E t \in Tasks : MongoGetL1(t) /\ RaceObs
    \/ \E t \in Tasks : MongoGetFind(t) /\ RaceObs
    \/ \E t \in Tasks : MongoGetAdd(t) /\ RaceObs
    \/ \E t \in Tasks : MongoSetL1(t) /\ RaceObs
    \/ \E t \in Tasks : MongoSetReplace(t) /\ RaceObs
    \/ \E t \in Tasks : RedisGet(t) /\ RaceObs
    \/ \E t \in Tasks : RedisSet(t) /\ RaceObs
    \/ \E p \in populate : SyncToRedis(p) /\ RaceObs
    \/ \E id \in ObjectIDs : UpdateAccessStats(id) /\ RaceObs

SpecSets == InitHybrid /\ [][NextSets]_vars

\* request t parsed `key`, stored the result with no error from either
\* backend, and its Set has returned
SetReturned(t, key) ==
    /\ task[t].op = "parse"
    /\ task[t].pc = "respond"
    /\ task[t].key = key
    /\ task[t].options.use_cache
    /\ task[t].code = 200
    /\ ~task[t].cache_hit
    /\ ~task[t].fault
    /\ task[t].l2_write = "ok"

\* C29: once the Sets of two simultaneous requests for one key have both
\* returned, with nothing left running in the background, Redis and MongoDB
\* hold the same result for the key.
C29_ConcurrentSetsAgree ==
    \A key \in RaceAddresses :
        ((\A t \in Tasks : SetReturned(t, key)) /\ populate = {})
          => /\ ~redis[RedisKey(key)].nil
             /\ \A d \in DocsWith(collection, generateFingerprint(key)) :
                   d.parsed_result = JsonUnmarshal(redis[RedisKey(key)].data)

\* C30: a response served from the cache carries the status and the
\* confidence a fresh parse of the same address under the same options
\* gives against the same gazetteer.
C30_CachedEqualsFresh ==
    \A t \in Tasks :
        (/\ task[t].op = "parse"
         /\ task[t].pc = "respond"
         /\ task[t].code = 200
         /\ task[t].cache_hit)
          => \E reach \in SearchReach :
                LET fresh == ParseAddress(task[t].key, task[t].options,
                                          index, reach)
                IN /\ ~fresh.err
                   /\ fresh.result.status = task[t].result.status
                   /\ fresh.result.confidence = task[t].result.confidence


====
